---- MODULE Spec2Model ----
(***************************************************************************)
(* Model of the infinite-brainstorm canvas: the bounded undo/redo History  *)
(* (src/src/history.rs) and the pointer/keyboard interaction core of the   *)
(* App component (src/src/app.rs) over the Board of src/src/state.rs.      *)
(***************************************************************************)
EXTENDS Integers, Sequences, FiniteSets, TLC

(***************************************************************************)
(* Bounds of the model.                                                    *)
(***************************************************************************)
\* History<i32> harness: largest max_size tried, largest snapshot value,
\* and the number of most recent calls remembered in the call log.
MaxDepth == 2
MaxVal == 2
LogLen == 4
MaxPushes == 3
\* App: number of events handled, and the explored part of the world, in
\* pixels to the left of / above and to the right of / below the origin.
MaxEvents == 4
MaxWheels == 6
MaxAnchorDenom == 100
MaxBackendSteps == 6
MaxFileEvents == 2
MaxFsSteps == 2
MaxLoadSteps == 4
MaxSaveEvents == 4
MaxFetchSteps == 4
WorldMargin == 70
WorldExtent == 250

(***************************************************************************)
(* Option<T>: None is the empty sequence, Some(v) the one-element sequence. *)
(***************************************************************************)
None == <<>>
Some(v) == <<v>>
IsSome(o) == o # <<>>
Unwrap(o) == o[1]

Last(s) == s[Len(s)]
Front(s) == SubSeq(s, 1, Len(s) - 1)

(***************************************************************************)
(* History<T>  (src/src/history.rs)                                        *)
(***************************************************************************)
History_new(max_size) ==
  [past |-> <<>>, future |-> <<>>, max_size |-> max_size]

\* while self.past.len() > self.max_size { self.past.remove(0); }
RECURSIVE TrimOldest(_, _)
TrimOldest(past, max_size) ==
  IF Len(past) > max_size THEN TrimOldest(Tail(past), max_size) ELSE past

\* mutants of push
push_keeps_future(h, state) ==
  [h EXCEPT !.past = TrimOldest(Append(h.past, state), h.max_size)]

push_no_trim(h, state) ==
  [h EXCEPT !.future = <<>>, !.past = Append(h.past, state)]

push(h, state) ==
  [h EXCEPT !.future = <<>>,
            !.past = TrimOldest(Append(h.past, state), h.max_size)]

\* mutant of undo: the current value is stored even when nothing is undone
undo_stores_on_empty(h, current) ==
  IF h.past = <<>>
  THEN [h |-> [h EXCEPT !.future = Append(h.future, current)], ret |-> None]
  ELSE [h |-> [h EXCEPT !.past = Front(h.past),
                        !.future = Append(h.future, current)],
        ret |-> Some(Last(h.past))]

\* mutant of undo: the oldest undo entry, not the newest, is popped
undo_returns_oldest(h, current) ==
  IF h.past = <<>>
  THEN [h |-> h, ret |-> None]
  ELSE [h |-> [h EXCEPT !.past = Tail(h.past),
                        !.future = Append(h.future, current)],
        ret |-> Some(Head(h.past))]

\* self.past.pop().map(|previous| { self.future.push(current); previous })
undo(h, current) ==
  IF h.past = <<>>
  THEN [h |-> h, ret |-> None]
  ELSE [h |-> [h EXCEPT !.past = Front(h.past),
                        !.future = Append(h.future, current)],
        ret |-> Some(Last(h.past))]

\* mutant of redo: the redone value, not the current one, goes back to past
redo_pushes_next(h, current) ==
  IF h.future = <<>>
  THEN [h |-> h, ret |-> None]
  ELSE [h |-> [h EXCEPT !.future = Front(h.future),
                        !.past = Append(h.past, Last(h.future))],
        ret |-> Some(Last(h.future))]

\* mutant of redo: the oldest redo entry, not the newest, is popped
redo_returns_oldest(h, current) ==
  IF h.future = <<>>
  THEN [h |-> h, ret |-> None]
  ELSE [h |-> [h EXCEPT !.future = Tail(h.future),
                        !.past = Append(h.past, current)],
        ret |-> Some(Head(h.future))]

\* self.future.pop().map(|next| { self.past.push(current); next })
redo(h, current) ==
  IF h.future = <<>>
  THEN [h |-> h, ret |-> None]
  ELSE [h |-> [h EXCEPT !.future = Front(h.future),
                        !.past = Append(h.past, current)],
        ret |-> Some(Last(h.future))]

can_undo(h) == h.past # <<>>
can_redo(h) == h.future # <<>>

(***************************************************************************)
(* Numbers.  World coordinates are f64 in the source.  Here a world length  *)
(* is an integer count of 1/Scale pixels and a screen length an integer     *)
(* count of pixels; a zoom is the exact fraction n/d.  Every zoom the model *)
(* reaches has n dividing Scale * d, so that each division by the zoom is   *)
(* exact.  Rounding of f64 is not modelled.                                 *)
(***************************************************************************)
Scale == 9 * 11

RESIZE_HANDLE_SIZE == 8 * Scale
MIN_NODE_WIDTH == 50 * Scale
MIN_NODE_HEIGHT == 30 * Scale
DEFAULT_WIDTH == 200 * Scale
DEFAULT_HEIGHT == 100 * Scale
EDGE_HIT_DISTANCE == 10 * Scale
HISTORY_MAX == 100

Abs(a) == IF a < 0 THEN 0 - a ELSE a
Max(a, b) == IF a < b THEN b ELSE a
Min(a, b) == IF a < b THEN a ELSE b

\* p/q < r/s for p, r >= 0 and q, s > 0, without forming a product
RECURSIVE FracLess(_, _, _, _)
FracLess(p, q, r, s) ==
  LET i == p \div q
      j == r \div s
      p2 == p % q
      r2 == r % s
  IN IF i # j THEN i < j
     ELSE IF r2 = 0 THEN FALSE
     ELSE IF p2 = 0 THEN TRUE
     ELSE FracLess(s, r2, q, p2)

\* a * b < c * d for naturals, without forming a product
ProdLess(a, b, c, d) ==
  IF c = 0 \/ d = 0 THEN FALSE
  ELSE IF a = 0 \/ b = 0 THEN TRUE
  ELSE FracLess(a, d, c, b)

\* a screen length (pixels) or a pixel constant divided by the zoom
DivZoom(len, zoom) == (len * zoom.d) \div zoom.n
ExactZoom(zoom) == (Scale * zoom.d) % zoom.n = 0

(***************************************************************************)
(* Camera  (src/src/state.rs)                                              *)
(***************************************************************************)
Camera_new == [x |-> 0, y |-> 0, zoom |-> [n |-> 1, d |-> 1]]

screen_to_world(cam, screen_x, screen_y) ==
  <<DivZoom(screen_x * Scale, cam.zoom) + cam.x,
    DivZoom(screen_y * Scale, cam.zoom) + cam.y>>

\* screen_to_world of a screen point given in units of 1/Scale px, as
\* world_to_screen returns it
screen_to_world_units(cam, sx, sy) ==
  <<DivZoom(sx, cam.zoom) + cam.x, DivZoom(sy, cam.zoom) + cam.y>>

\* mutant: the camera offset is not subtracted
world_to_screen_no_offset(cam, world_x, world_y) ==
  <<(world_x * cam.zoom.n) \div cam.zoom.d,
    (world_y * cam.zoom.n) \div cam.zoom.d>>

\* ((world_x - self.x) * self.zoom, (world_y - self.y) * self.zoom), the
\* screen point in units of 1/Scale px
world_to_screen(cam, world_x, world_y) ==
  <<((world_x - cam.x) * cam.zoom.n) \div cam.zoom.d,
    ((world_y - cam.y) * cam.zoom.n) \div cam.zoom.d>>

(***************************************************************************)
(* Node, Edge, Board  (src/src/state.rs)                                   *)
(***************************************************************************)
Node_new(id, x, y, text) ==
  [id |-> id, x |-> x, y |-> y, width |-> DEFAULT_WIDTH,
   height |-> DEFAULT_HEIGHT, text |-> text, node_type |-> "text"]

Board_default == [nodes |-> <<>>, edges |-> <<>>]

\* mutant of contains_point: the boundary does not count
contains_point_open(node, px, py) ==
  /\ px > node.x /\ px < node.x + node.width
  /\ py > node.y /\ py < node.y + node.height

contains_point(node, px, py) ==
  /\ px >= node.x /\ px <= node.x + node.width
  /\ py >= node.y /\ py <= node.y + node.height

InHandle(cx, cy, px, py, half) ==
  /\ px >= cx - half /\ px <= cx + half
  /\ py >= cy - half /\ py <= cy + half

resize_handle_at(node, px, py, handle_size) ==
  LET half == handle_size \div 2 IN
  IF InHandle(node.x, node.y, px, py, half) THEN Some("TopLeft")
  ELSE IF InHandle(node.x + node.width, node.y, px, py, half)
       THEN Some("TopRight")
  ELSE IF InHandle(node.x, node.y + node.height, px, py, half)
       THEN Some("BottomLeft")
  ELSE IF InHandle(node.x + node.width, node.y + node.height, px, py, half)
       THEN Some("BottomRight")
  ELSE None

(***************************************************************************)
(* Free functions of src/src/app.rs                                        *)
(***************************************************************************)
\* mutant: a kind that is not recognized stays as it is
cycle_node_type_keeps_unknown(current) ==
  CASE current = "text" -> "idea"
    [] current = "idea" -> "note"
    [] current = "note" -> "image"
    [] current = "image" -> "md"
    [] current = "md" -> "link"
    [] OTHER -> current

cycle_node_type(current) ==
  CASE current = "text" -> "idea"
    [] current = "idea" -> "note"
    [] current = "note" -> "image"
    [] current = "image" -> "md"
    [] current = "md" -> "link"
    [] OTHER -> "text"

\* mutant: a node that only touches the box is outside
intersects_box_strict(node, min_x, min_y, max_x, max_y) ==
  LET node_right == node.x + node.width
      node_bottom == node.y + node.height
  IN ~(node.x >= max_x \/ node_right <= min_x
       \/ node.y >= max_y \/ node_bottom <= min_y)

intersects_box(node, min_x, min_y, max_x, max_y) ==
  LET node_right == node.x + node.width
      node_bottom == node.y + node.height
  IN ~(node.x > max_x \/ node_right < min_x
       \/ node.y > max_y \/ node_bottom < min_y)

\* sqrt(a^2 + b^2) < threshold
NormLess(a, b, threshold) ==
  /\ Abs(a) < threshold
  /\ Abs(b) < threshold
  /\ a * a + b * b < threshold * threshold

\* t = dot / len_sq clamped to [0, 1] picks the first endpoint, the second
\* endpoint or the foot of the perpendicular, whose distance from the point
\* is |cross| / sqrt(len_sq).
point_near_line(px, py, x1, y1, x2, y2, threshold) ==
  LET dx == x2 - x1
      dy == y2 - y1
      len_sq == dx * dx + dy * dy
      dot == (px - x1) * dx + (py - y1) * dy
      cross == Abs((px - x1) * dy - (py - y1) * dx)
  IN IF len_sq = 0 THEN NormLess(px - x1, py - y1, threshold)
     ELSE IF dot <= 0 THEN NormLess(px - x1, py - y1, threshold)
     ELSE IF dot >= len_sq THEN NormLess(px - x2, py - y2, threshold)
     ELSE ProdLess(cross, cross, threshold * threshold, len_sq)

(***************************************************************************)
(* State of the App component  (src/src/app.rs, fn App)                    *)
(***************************************************************************)
VARIABLES
  board,                 \* signal(Board)
  camera,                \* signal(Camera)
  selected_nodes,        \* signal(HashSet<String>)
  selected_edge,         \* signal(Option<String>)
  drag_state,            \* signal(DragState)
  pan_state,             \* signal(PanState)
  editing_node,          \* signal(Option<String>)
  edge_creation,         \* signal(EdgeCreationState)
  resize_state,          \* signal(ResizeState)
  cursor_style,          \* signal(String)
  last_mouse_world_pos,  \* signal((f64, f64))
  selection_box,         \* signal(Option<(f64, f64, f64, f64)>)
  modal_image,           \* signal(Option<String>)
  modal_md,              \* signal(Option<(String, bool)>)
  node_clipboard,        \* signal(Option<(Vec<Node>, Vec<Edge>)>)
  history,               \* Rc<RefCell<History<Board>>>
  next_uuid,             \* the next value uuid::Uuid::new_v4() returns
  saves,                 \* Boards the last event dispatched for saving
  events,                \* number of events handled so far
  last_event,            \* the handler that ran last
  gesture,               \* the drag or resize gesture being followed
  hist,                  \* a History<i32> under test (history.rs mod tests)
  calls,                 \* the most recent calls made on hist
  skip_next_emit,        \* static SKIP_NEXT_EMIT: AtomicBool  (lib.rs 13)
  saving,                \* a save_board call is between its flag store and its write
  fs_events,             \* channel of the watcher: events on board.json, by origin
  last_emit,             \* the watcher's last_emit is Some(_)
  emitted,               \* origins of the events board-changed was emitted for
  handled,               \* what the watcher saw at the event it handled last
  wsteps,                \* number of backend steps so far
  cwd,                   \* std::env::current_dir() of the backend process
  fs,                    \* the directories, files and symlinks on disk
  delete_ret,            \* what the last delete_asset call returned
  fs_steps,              \* number of asset commands so far
  tauri,                 \* is_tauri(): the frontend runs inside Tauri
  document,              \* board.json (Tauri) or the localStorage item
  reload_pending,        \* board-changed was emitted and not yet handled
  loaded,                \* what the last load found and how it ended
  load_steps,            \* number of load and storage steps so far
  save_waiting,          \* save tasks still awaiting their delete_asset calls
  save_calls,            \* save_board_storage calls issued and not yet served
  save_failed,           \* a save_board_storage call has failed
  image_cache,           \* ImageCache: the keys held with None, with Some
  link_cache,            \* LinkPreviewCache, likewise
  md_file_cache,         \* the md_file_cache signal, likewise
  fetch_started,         \* per cache and key, the fetches started so far
  fetching,              \* the fetch tasks under way
  fetch_steps            \* number of board changes and completions so far

wvars ==
  <<skip_next_emit, saving, fs_events, last_emit, emitted, handled, wsteps>>

NotHandled == [origin |-> "none", was_skip_set |-> FALSE, pending |-> FALSE]

\* the backend before any save and any file event
WatcherIdle ==
  /\ skip_next_emit = FALSE
  /\ saving = FALSE
  /\ fs_events = <<>>
  /\ last_emit = FALSE
  /\ emitted = <<>>
  /\ handled = NotHandled
  /\ wsteps = 0

fsvars == <<cwd, fs, delete_ret, fs_steps>>

ProjectDir == <<"proj">>

TauriDir == <<"proj", "src-tauri">>

\* a disk with the two directories the backend can be started in
BareFs == [dirs |-> {<<>>, ProjectDir, TauriDir}, files |-> {}, links |-> {}]

\* the backend before any asset command
FsIdle ==
  /\ cwd = ProjectDir
  /\ fs = BareFs
  /\ delete_ret = "none"
  /\ fs_steps = 0

loadvars == <<tauri, document, reload_pending, loaded, load_steps>>

Missing == [kind |-> "missing", board |-> [nodes |-> <<>>, edges |-> <<>>]]

NotLoaded == [by |-> "none", found |-> "none", failed |-> FALSE]

\* the frontend before its startup load, nothing persisted
LoadIdle ==
  /\ tauri = TRUE
  /\ document = Missing
  /\ reload_pending = FALSE
  /\ loaded = NotLoaded
  /\ load_steps = 0

savevars == <<save_waiting, save_calls, save_failed>>

\* no save task in flight
SaveIdle ==
  /\ save_waiting = <<>>
  /\ save_calls = <<>>
  /\ save_failed = FALSE

fetchvars ==
  <<image_cache, link_cache, md_file_cache, fetch_started, fetching,
    fetch_steps>>

ImageUrl == "http://i/a.png"

LinkUrl == "http://l/x"

FetchKeys == {ImageUrl, LinkUrl, "/n.md"}

\* HashMap::new(): no key held
EmptyCache == [none |-> {}, some |-> {}]

NoFetches == [k \in FetchKeys |-> 0]

\* the caches as created, nothing fetched
FetchIdle ==
  /\ image_cache = EmptyCache
  /\ link_cache = EmptyCache
  /\ md_file_cache = EmptyCache
  /\ fetch_started = [image |-> NoFetches, link |-> NoFetches, md |-> NoFetches]
  /\ fetching = <<>>
  /\ fetch_steps = 0

backend == <<wvars, fsvars, loadvars, savevars, fetchvars>>

BackendIdle == WatcherIdle /\ FsIdle /\ LoadIdle /\ SaveIdle /\ FetchIdle

DragState_default ==
  [is_dragging |-> FALSE, is_box_selecting |-> FALSE,
   start_x |-> 0, start_y |-> 0, node_start_positions |-> <<>>]

PanState_default ==
  [is_panning |-> FALSE, start_x |-> 0, start_y |-> 0,
   camera_start_x |-> 0, camera_start_y |-> 0]

EdgeCreationState_default ==
  [is_creating |-> FALSE, from_node_id |-> None,
   current_x |-> 0, current_y |-> 0]

ResizeState_default ==
  [is_resizing |-> FALSE, node_id |-> None, handle |-> None,
   start_mouse_x |-> 0, start_mouse_y |-> 0,
   original_x |-> 0, original_y |-> 0,
   original_width |-> 0, original_height |-> 0]

\* the whole state as one record, the argument and result of the handlers
State ==
  [board |-> board, camera |-> camera, selected_nodes |-> selected_nodes,
   selected_edge |-> selected_edge, drag_state |-> drag_state,
   pan_state |-> pan_state, editing_node |-> editing_node,
   edge_creation |-> edge_creation, resize_state |-> resize_state,
   cursor_style |-> cursor_style,
   last_mouse_world_pos |-> last_mouse_world_pos,
   selection_box |-> selection_box, modal_image |-> modal_image,
   modal_md |-> modal_md, node_clipboard |-> node_clipboard,
   history |-> history, next_uuid |-> next_uuid, saves |-> <<>>]

\* let current_board = board.get_untracked();
\* spawn_local(async move { save_board_storage(&current_board).await; })
spawn_save(st) == [st EXCEPT !.saves = Append(st.saves, st.board)]

SetMin(S) == CHOOSE x \in S : \A y \in S : x <= y
SetMax(S) == CHOOSE x \in S : \A y \in S : x >= y

\* iter().find(..) and iter().rev().find(..) over a Vec, as an Option
FindFirst(seq, Test(_)) ==
  LET I == {i \in 1..Len(seq) : Test(seq[i])}
  IN IF I = {} THEN None ELSE Some(seq[SetMin(I)])

FindLast(seq, Test(_)) ==
  LET I == {i \in 1..Len(seq) : Test(seq[i])}
  IN IF I = {} THEN None ELSE Some(seq[SetMax(I)])

NodeIds(b) == {b.nodes[i].id : i \in 1..Len(b.nodes)}
EdgeIds(b) == {b.edges[i].id : i \in 1..Len(b.edges)}

\* b.nodes.iter().find(|n| n.id == id)
FindNode(b, id) == FindFirst(b.nodes, LAMBDA n : n.id = id)

(***************************************************************************)
(* on_mouse_down  (src/src/app.rs 544-689)                                 *)
(***************************************************************************)
\* mutant: the handle keeps its world size whatever the zoom
handle_size_unscaled(cam) == RESIZE_HANDLE_SIZE

\* let handle_size = RESIZE_HANDLE_SIZE / cam.zoom;
handle_size(cam) == DivZoom(RESIZE_HANDLE_SIZE, cam.zoom)

\* 10.0 / cam.zoom
edge_threshold(cam) == DivZoom(EDGE_HIT_DISTANCE, cam.zoom)

\* nodes.iter().filter(selected).find_map(resize_handle_at) -> (node, handle)
resize_hit(b, selected, world_x, world_y, hsize) ==
  LET hit == FindFirst(b.nodes, LAMBDA n :
               /\ n.id \in selected
               /\ IsSome(resize_handle_at(n, world_x, world_y, hsize)))
  IN IF hit = None THEN None
     ELSE Some([node |-> Unwrap(hit),
                handle |-> Unwrap(resize_handle_at(Unwrap(hit), world_x,
                                                   world_y, hsize))])

\* mutant: the bottom-most node under the point wins
clicked_node_first(b, world_x, world_y) ==
  FindFirst(b.nodes, LAMBDA n : contains_point(n, world_x, world_y))

\* nodes.iter().rev().find(|n| n.contains_point(world_x, world_y))
clicked_node(b, world_x, world_y) ==
  FindLast(b.nodes, LAMBDA n : contains_point(n, world_x, world_y))

EdgeNear(b, edge, world_x, world_y, threshold) ==
  LET from == FindNode(b, edge.from_node)
      to == FindNode(b, edge.to_node)
  IN IF IsSome(from) /\ IsSome(to)
     THEN LET f == Unwrap(from)
              t == Unwrap(to)
          IN point_near_line(world_x, world_y,
                             f.x + f.width \div 2, f.y + f.height \div 2,
                             t.x + t.width \div 2, t.y + t.height \div 2,
                             threshold)
     ELSE FALSE

\* edges.iter().find(|edge| ... point_near_line(.., 10.0 / cam.zoom))
clicked_edge(b, cam, world_x, world_y) ==
  FindFirst(b.edges, LAMBDA e :
              EdgeNear(b, e, world_x, world_y, edge_threshold(cam)))

\* the positions of the selected nodes of the board, keyed by node id
StartPositions(b, selected) ==
  [id \in NodeIds(b) \cap selected |->
     LET n == Unwrap(FindNode(b, id)) IN <<n.x, n.y>>]

\* the branch of a pointer-down on a node  (594-646)
MouseDownNode(st, node, canvas_x, canvas_y, shift, ctrl) ==
  IF shift
  THEN [st EXCEPT
          !.selected_edge = None,
          !.edge_creation =
             [is_creating |-> TRUE, from_node_id |-> Some(node.id),
              current_x |-> canvas_x, current_y |-> canvas_y]]
  ELSE LET toggled == IF node.id \in st.selected_nodes
                      THEN st.selected_nodes \ {node.id}
                      ELSE st.selected_nodes \cup {node.id}
           selected == IF ctrl THEN toggled
                       ELSE IF node.id \notin st.selected_nodes THEN {node.id}
                       ELSE st.selected_nodes
           found == StartPositions(st.board, selected)
           empty == DOMAIN found = {}
       IN [st EXCEPT
             !.selected_edge = None,
             !.selected_nodes = IF empty THEN {node.id} ELSE selected,
             !.history = push(st.history, st.board),
             !.drag_state =
                [is_dragging |-> TRUE, is_box_selecting |-> FALSE,
                 start_x |-> canvas_x, start_y |-> canvas_y,
                 node_start_positions |->
                   IF empty THEN [id \in {node.id} |-> <<node.x, node.y>>]
                   ELSE found]]

\* the branch of a pointer-down on an edge  (662-664)
MouseDownEdge(st, edge) ==
  [st EXCEPT !.selected_nodes = {}, !.selected_edge = Some(edge.id)]

\* the branch of a pointer-down on empty canvas  (665-687)
MouseDownEmpty(st, canvas_x, canvas_y, shift, ctrl) ==
  LET cleared ==
        [st EXCEPT
           !.selected_edge = None,
           !.selected_nodes =
              IF ~shift /\ ~ctrl THEN {} ELSE st.selected_nodes]
  IN IF ctrl
     THEN [cleared EXCEPT
             !.drag_state =
                [is_dragging |-> FALSE, is_box_selecting |-> TRUE,
                 start_x |-> canvas_x, start_y |-> canvas_y,
                 node_start_positions |-> <<>>]]
     ELSE [cleared EXCEPT
             !.pan_state =
                [is_panning |-> TRUE,
                 start_x |-> canvas_x, start_y |-> canvas_y,
                 camera_start_x |-> st.camera.x,
                 camera_start_y |-> st.camera.y]]

\* the branch of a pointer-down on a resize handle  (570-586)
MouseDownHandle(st, node, handle, world_x, world_y) ==
  [st EXCEPT
     !.history = push(st.history, st.board),
     !.resize_state =
        [is_resizing |-> TRUE, node_id |-> Some(node.id),
         handle |-> Some(handle),
         start_mouse_x |-> world_x, start_mouse_y |-> world_y,
         original_x |-> node.x, original_y |-> node.y,
         original_width |-> node.width, original_height |-> node.height]]

\* mutant: nodes are hit-tested before the resize handles
DownTarget_node_first(st, canvas_x, canvas_y) ==
  LET w == screen_to_world(st.camera, canvas_x, canvas_y)
      rh == resize_hit(st.board, st.selected_nodes, w[1], w[2],
                       handle_size(st.camera))
      cn == clicked_node(st.board, w[1], w[2])
      ce == clicked_edge(st.board, st.camera, w[1], w[2])
  IN IF IsSome(cn) THEN [kind |-> "node", hit |-> Unwrap(cn)]
     ELSE IF IsSome(rh) THEN [kind |-> "handle", hit |-> Unwrap(rh)]
     ELSE IF IsSome(ce) THEN [kind |-> "edge", hit |-> Unwrap(ce)]
     ELSE [kind |-> "empty", hit |-> None]

\* what the pointer-down is on: the order of the tests of 566-662
DownTarget(st, canvas_x, canvas_y) ==
  LET w == screen_to_world(st.camera, canvas_x, canvas_y)
      rh == resize_hit(st.board, st.selected_nodes, w[1], w[2],
                       handle_size(st.camera))
      cn == clicked_node(st.board, w[1], w[2])
      ce == clicked_edge(st.board, st.camera, w[1], w[2])
  IN IF IsSome(rh) THEN [kind |-> "handle", hit |-> Unwrap(rh)]
     ELSE IF IsSome(cn) THEN [kind |-> "node", hit |-> Unwrap(cn)]
     ELSE IF IsSome(ce) THEN [kind |-> "edge", hit |-> Unwrap(ce)]
     ELSE [kind |-> "empty", hit |-> None]

on_mouse_down(st, canvas_x, canvas_y, shift, ctrl) ==
  IF IsSome(st.editing_node) THEN st
  ELSE
    LET w == screen_to_world(st.camera, canvas_x, canvas_y)
        t == DownTarget(st, canvas_x, canvas_y)
    IN CASE t.kind = "handle" ->
              MouseDownHandle(st, t.hit.node, t.hit.handle, w[1], w[2])
         [] t.kind = "node" ->
              MouseDownNode(st, t.hit, canvas_x, canvas_y, shift, ctrl)
         [] t.kind = "edge" -> MouseDownEdge(st, t.hit)
         [] OTHER -> MouseDownEmpty(st, canvas_x, canvas_y, shift, ctrl)

(***************************************************************************)
(* on_mouse_move  (src/src/app.rs 691-818)                                 *)
(***************************************************************************)
\* mutant: width and height follow the pointer below their minimums
Resized_unclamped(node, rs, dx, dy) ==
  LET shrink_w == rs.original_width - dx
      grow_w == rs.original_width + dx
      shrink_h == rs.original_height - dy
      grow_h == rs.original_height + dy
  IN CASE rs.handle = Some("TopLeft") ->
            [node EXCEPT
               !.x = rs.original_x + (rs.original_width - shrink_w),
               !.y = rs.original_y + (rs.original_height - shrink_h),
               !.width = shrink_w, !.height = shrink_h]
       [] rs.handle = Some("TopRight") ->
            [node EXCEPT
               !.y = rs.original_y + (rs.original_height - shrink_h),
               !.width = grow_w, !.height = shrink_h]
       [] rs.handle = Some("BottomLeft") ->
            [node EXCEPT
               !.x = rs.original_x + (rs.original_width - shrink_w),
               !.width = shrink_w, !.height = grow_h]
       [] rs.handle = Some("BottomRight") ->
            [node EXCEPT !.width = grow_w, !.height = grow_h]
       [] OTHER -> node

\* mutant: a clamped node keeps its top-left corner, not the opposite corner
Resized_anchored_top_left(node, rs, dx, dy) ==
  LET shrink_w == Max(rs.original_width - dx, MIN_NODE_WIDTH)
      grow_w == Max(rs.original_width + dx, MIN_NODE_WIDTH)
      shrink_h == Max(rs.original_height - dy, MIN_NODE_HEIGHT)
      grow_h == Max(rs.original_height + dy, MIN_NODE_HEIGHT)
  IN CASE rs.handle = Some("TopLeft") ->
            [node EXCEPT
               !.x = rs.original_x + dx, !.y = rs.original_y + dy,
               !.width = shrink_w, !.height = shrink_h]
       [] rs.handle = Some("TopRight") ->
            [node EXCEPT
               !.y = rs.original_y + dy,
               !.width = grow_w, !.height = shrink_h]
       [] rs.handle = Some("BottomLeft") ->
            [node EXCEPT
               !.x = rs.original_x + dx,
               !.width = shrink_w, !.height = grow_h]
       [] rs.handle = Some("BottomRight") ->
            [node EXCEPT !.width = grow_w, !.height = grow_h]
       [] OTHER -> node

\* the resized geometry of the node, for each handle  (711-745)
Resized(node, rs, dx, dy) ==
  LET shrink_w == Max(rs.original_width - dx, MIN_NODE_WIDTH)
      grow_w == Max(rs.original_width + dx, MIN_NODE_WIDTH)
      shrink_h == Max(rs.original_height - dy, MIN_NODE_HEIGHT)
      grow_h == Max(rs.original_height + dy, MIN_NODE_HEIGHT)
  IN CASE rs.handle = Some("TopLeft") ->
            [node EXCEPT
               !.x = rs.original_x + (rs.original_width - shrink_w),
               !.y = rs.original_y + (rs.original_height - shrink_h),
               !.width = shrink_w, !.height = shrink_h]
       [] rs.handle = Some("TopRight") ->
            [node EXCEPT
               !.y = rs.original_y + (rs.original_height - shrink_h),
               !.width = grow_w, !.height = shrink_h]
       [] rs.handle = Some("BottomLeft") ->
            [node EXCEPT
               !.x = rs.original_x + (rs.original_width - shrink_w),
               !.width = shrink_w, !.height = grow_h]
       [] rs.handle = Some("BottomRight") ->
            [node EXCEPT !.width = grow_w, !.height = grow_h]
       [] OTHER -> node

\* for node in nodes.iter().rev() { handle of a selected node / contains }
HoverCursor(b, selected, world_x, world_y, hsize) ==
  LET Stops(n) ==
        \/ n.id \in selected
           /\ IsSome(resize_handle_at(n, world_x, world_y, hsize))
        \/ contains_point(n, world_x, world_y)
      top == FindLast(b.nodes, Stops)
  IN IF top = None THEN "crosshair"
     ELSE LET n == Unwrap(top)
              h == IF n.id \in selected
                   THEN resize_handle_at(n, world_x, world_y, hsize)
                   ELSE None
          IN IF h = Some("TopLeft") \/ h = Some("BottomRight")
             THEN "nwse-resize"
             ELSE IF h = Some("TopRight") \/ h = Some("BottomLeft")
             THEN "nesw-resize"
             ELSE "move"

\* the resizing branch  (702-748)
MouseMoveResize(st, world_x, world_y) ==
  LET rs == st.resize_state
      dx == world_x - rs.start_mouse_x
      dy == world_y - rs.start_mouse_y
  IN [st EXCEPT
        !.board.nodes =
           [i \in 1..Len(st.board.nodes) |->
              LET n == st.board.nodes[i] IN
              IF Some(n.id) = rs.node_id
              THEN Resized(n, rs, dx, dy) ELSE n]]

\* the nodes of the board, the dragged ones translated by the pointer delta
Dragged(st, canvas_x, canvas_y) ==
  LET ds == st.drag_state
      dx == DivZoom((canvas_x - ds.start_x) * Scale, st.camera.zoom)
      dy == DivZoom((canvas_y - ds.start_y) * Scale, st.camera.zoom)
  IN [i \in 1..Len(st.board.nodes) |->
        LET n == st.board.nodes[i] IN
        IF n.id \in DOMAIN ds.node_start_positions
        THEN [n EXCEPT !.x = ds.node_start_positions[n.id][1] + dx,
                       !.y = ds.node_start_positions[n.id][2] + dy]
        ELSE n]

\* mutant: every pointer-move of a drag records a history entry
MouseMoveDrag_pushes(st, canvas_x, canvas_y) ==
  [st EXCEPT !.history = push(st.history, st.board),
             !.board.nodes = Dragged(st, canvas_x, canvas_y)]

\* mutant: a recorded node that is gone from the Board is put back
MouseMoveDrag_revives(st, canvas_x, canvas_y) ==
  LET ds == st.drag_state
      gone == DOMAIN ds.node_start_positions \ NodeIds(st.board)
  IN [st EXCEPT
        !.board.nodes =
           IF gone = {} THEN Dragged(st, canvas_x, canvas_y)
           ELSE LET id == CHOOSE g \in gone : TRUE
                IN Append(Dragged(st, canvas_x, canvas_y),
                          Node_new(id, ds.node_start_positions[id][1],
                                   ds.node_start_positions[id][2], "a"))]

\* the dragging branch  (754-766)
MouseMoveDrag(st, canvas_x, canvas_y) ==
  [st EXCEPT !.board.nodes = Dragged(st, canvas_x, canvas_y)]

on_mouse_move(st, canvas_x, canvas_y) ==
  LET w == screen_to_world(st.camera, canvas_x, canvas_y)
      ds == st.drag_state
      ps == st.pan_state
  IN IF st.resize_state.is_resizing
     THEN MouseMoveResize(st, w[1], w[2])
     ELSE IF st.edge_creation.is_creating
     THEN [st EXCEPT !.edge_creation.current_x = canvas_x,
                     !.edge_creation.current_y = canvas_y]
     ELSE IF ds.is_dragging
     THEN MouseMoveDrag(st, canvas_x, canvas_y)
     ELSE IF ds.is_box_selecting
     THEN LET s == screen_to_world(st.camera, ds.start_x, ds.start_y)
          IN [st EXCEPT
                !.selection_box =
                   Some(<<Min(s[1], w[1]), Min(s[2], w[2]),
                          Max(s[1], w[1]), Max(s[2], w[2])>>)]
     ELSE IF ps.is_panning
     THEN LET dx == DivZoom((canvas_x - ps.start_x) * Scale, st.camera.zoom)
              dy == DivZoom((canvas_y - ps.start_y) * Scale, st.camera.zoom)
          IN [st EXCEPT !.camera.x = ps.camera_start_x - dx,
                        !.camera.y = ps.camera_start_y - dy]
     ELSE [st EXCEPT
             !.last_mouse_world_pos = w,
             !.cursor_style =
                HoverCursor(st.board, st.selected_nodes, w[1], w[2],
                            handle_size(st.camera))]

(***************************************************************************)
(* on_mouse_up  (src/src/app.rs 820-900), also bound to mouseleave         *)
(***************************************************************************)
\* the edge-creation branch  (838-870)
MouseUpEdge(st, world_x, world_y) ==
  LET from_id == st.edge_creation.from_node_id
      target == clicked_node(st.board, world_x, world_y)
      done == [st EXCEPT !.edge_creation = EdgeCreationState_default]
  IN IF IsSome(from_id) /\ IsSome(target)
        /\ Unwrap(target).id # Unwrap(from_id)
     THEN spawn_save(
            [done EXCEPT
               !.history = push(st.history, st.board),
               !.board.edges =
                  Append(st.board.edges,
                         [id |-> st.next_uuid, from_node |-> Unwrap(from_id),
                          to_node |-> Unwrap(target).id]),
               !.next_uuid = st.next_uuid + 1])
     ELSE done

\* the box-select branch and the common tail  (872-899)
MouseUpRest(st, shift) ==
  LET boxed ==
        IF st.drag_state.is_box_selecting
        THEN IF IsSome(st.selection_box)
             THEN LET sb == Unwrap(st.selection_box)
                      nodes_in_box ==
                        {st.board.nodes[i].id : i \in
                           {j \in 1..Len(st.board.nodes) :
                              intersects_box(st.board.nodes[j],
                                             sb[1], sb[2], sb[3], sb[4])}}
                  IN [st EXCEPT
                        !.selected_nodes =
                           IF shift THEN st.selected_nodes \cup nodes_in_box
                           ELSE nodes_in_box,
                        !.selection_box = None]
             ELSE [st EXCEPT !.selection_box = None]
        ELSE st
      reset == [boxed EXCEPT !.drag_state = DragState_default,
                             !.pan_state = PanState_default]
  IN IF st.drag_state.is_dragging THEN spawn_save(reset) ELSE reset

on_mouse_up(st, canvas_x, canvas_y, shift) ==
  IF st.resize_state.is_resizing
  THEN spawn_save([st EXCEPT !.resize_state = ResizeState_default])
  ELSE IF st.edge_creation.is_creating
  THEN LET w == screen_to_world(st.camera, canvas_x, canvas_y)
       IN MouseUpEdge(st, w[1], w[2])
  ELSE MouseUpRest(st, shift)

(***************************************************************************)
(* on_wheel  (src/src/app.rs 902-920)                                      *)
(***************************************************************************)
\* mutant: the zoom is clamped from below only
Zoomed_no_upper_bound(zoom, zoom_in) ==
  LET z == IF zoom_in THEN [n |-> zoom.n * 11, d |-> zoom.d * 10]
           ELSE [n |-> zoom.n * 9, d |-> zoom.d * 10]
  IN IF z.n * 10 < z.d THEN [n |-> 1, d |-> 10] ELSE z

\* (c.zoom * zoom_factor).clamp(0.1, 5.0), zoom_factor 1.1 or 0.9
Zoomed(zoom, zoom_in) ==
  LET z == IF zoom_in THEN [n |-> zoom.n * 11, d |-> zoom.d * 10]
           ELSE [n |-> zoom.n * 9, d |-> zoom.d * 10]
  IN IF z.n * 10 < z.d THEN [n |-> 1, d |-> 10]
     ELSE IF z.n > 5 * z.d THEN [n |-> 5, d |-> 1]
     ELSE z

\* mutant: the zoom changes and the camera offset is left as it was
on_wheel_keeps_offset(st, canvas_x, canvas_y, zoom_in) ==
  [st EXCEPT !.camera.zoom = Zoomed(st.camera.zoom, zoom_in)]

on_wheel(st, canvas_x, canvas_y, zoom_in) ==
  LET w == screen_to_world(st.camera, canvas_x, canvas_y)
      zoom == Zoomed(st.camera.zoom, zoom_in)
  IN [st EXCEPT
        !.camera = [zoom |-> zoom,
                    x |-> w[1] - DivZoom(canvas_x * Scale, zoom),
                    y |-> w[2] - DivZoom(canvas_y * Scale, zoom)]]

(***************************************************************************)
(* on_double_click  (src/src/app.rs 922-986)                               *)
(***************************************************************************)
\* is_local_md_file, on the texts the model uses
LocalMdText == "/n.md"
is_local_md_file(path) == path = LocalMdText

\* mutant: the new node has its top-left corner, not its centre, at the pointer
DoubleClickCreate_at_pointer(st, world_x, world_y) ==
  LET new_node == Node_new(st.next_uuid, world_x, world_y, "New Node")
  IN spawn_save(
       [st EXCEPT
          !.history = push(st.history, st.board),
          !.board.nodes = Append(st.board.nodes, new_node),
          !.selected_nodes = {new_node.id},
          !.editing_node = Some(new_node.id),
          !.next_uuid = st.next_uuid + 1])

\* the branch of a double-click on empty canvas  (963-984)
DoubleClickCreate(st, world_x, world_y) ==
  LET new_node == Node_new(st.next_uuid, world_x - 100 * Scale,
                           world_y - 50 * Scale, "New Node")
  IN spawn_save(
       [st EXCEPT
          !.history = push(st.history, st.board),
          !.board.nodes = Append(st.board.nodes, new_node),
          !.selected_nodes = {new_node.id},
          !.editing_node = Some(new_node.id),
          !.next_uuid = st.next_uuid + 1])

\* image_cached: whether the image cache holds a loaded image for the node
on_double_click(st, canvas_x, canvas_y, image_cached) ==
  LET w == screen_to_world(st.camera, canvas_x, canvas_y)
      hit == clicked_node(st.board, w[1], w[2])
  IN IF IsSome(hit)
     THEN LET node == Unwrap(hit) IN
          IF node.node_type = "image"
          THEN IF image_cached
               THEN [st EXCEPT !.modal_image = Some(node.text)] ELSE st
          ELSE IF node.node_type = "md"
          THEN [st EXCEPT !.modal_md = Some(<<node.id, FALSE>>)]
          ELSE IF node.node_type = "link" /\ is_local_md_file(node.text)
          THEN [st EXCEPT !.modal_md = Some(<<node.id, FALSE>>)]
          ELSE IF node.node_type = "link"
          THEN st
          ELSE [st EXCEPT !.editing_node = Some(node.id)]
     ELSE DoubleClickCreate(st, w[1], w[2])

(***************************************************************************)
(* on_keydown  (src/src/app.rs 988-1164)                                   *)
(***************************************************************************)
\* mutant: undo swaps the Board and leaves the selection
KeyUndo_keeps_selection(st) ==
  LET r == undo(st.history, st.board)
  IN IF IsSome(r.ret)
     THEN spawn_save([st EXCEPT !.history = r.h, !.board = Unwrap(r.ret)])
     ELSE [st EXCEPT !.history = r.h]

KeyUndo(st) ==
  LET r == undo(st.history, st.board)
  IN IF IsSome(r.ret)
     THEN spawn_save(
            [st EXCEPT !.history = r.h, !.board = Unwrap(r.ret),
                       !.selected_nodes = {}, !.selected_edge = None])
     ELSE [st EXCEPT !.history = r.h]

KeyRedo(st) ==
  LET r == redo(st.history, st.board)
  IN IF IsSome(r.ret)
     THEN spawn_save(
            [st EXCEPT !.history = r.h, !.board = Unwrap(r.ret),
                       !.selected_nodes = {}, !.selected_edge = None])
     ELSE [st EXCEPT !.history = r.h]

\* mutant: deleting records no snapshot
KeyDelete_no_snapshot(st) ==
  IF IsSome(st.selected_edge)
  THEN spawn_save([st EXCEPT
          !.board.edges =
             SelectSeq(st.board.edges,
                       LAMBDA e : e.id # Unwrap(st.selected_edge)),
          !.selected_edge = None])
  ELSE IF st.selected_nodes # {}
  THEN spawn_save([st EXCEPT
          !.board.nodes =
             SelectSeq(st.board.nodes,
                       LAMBDA n : n.id \notin st.selected_nodes),
          !.board.edges =
             SelectSeq(st.board.edges,
                       LAMBDA e : /\ e.from_node \notin st.selected_nodes
                                  /\ e.to_node \notin st.selected_nodes),
          !.selected_nodes = {}])
  ELSE st

\* mutant: deleting nodes leaves their edges in place
KeyDelete_keeps_edges(st) ==
  IF IsSome(st.selected_edge)
  THEN spawn_save([st EXCEPT
          !.history = push(st.history, st.board),
          !.board.edges =
             SelectSeq(st.board.edges,
                       LAMBDA e : e.id # Unwrap(st.selected_edge)),
          !.selected_edge = None])
  ELSE IF st.selected_nodes # {}
  THEN spawn_save([st EXCEPT
          !.history = push(st.history, st.board),
          !.board.nodes =
             SelectSeq(st.board.nodes,
                       LAMBDA n : n.id \notin st.selected_nodes),
          !.selected_nodes = {}])
  ELSE st

\* "Backspace" | "Delete"  (1024-1070)
KeyDelete(st) ==
  IF IsSome(st.selected_edge)
  THEN spawn_save([st EXCEPT
          !.history = push(st.history, st.board),
          !.board.edges =
             SelectSeq(st.board.edges,
                       LAMBDA e : e.id # Unwrap(st.selected_edge)),
          !.selected_edge = None])
  ELSE IF st.selected_nodes # {}
  THEN spawn_save([st EXCEPT
          !.history = push(st.history, st.board),
          !.board.nodes =
             SelectSeq(st.board.nodes,
                       LAMBDA n : n.id \notin st.selected_nodes),
          !.board.edges =
             SelectSeq(st.board.edges,
                       LAMBDA e : /\ e.from_node \notin st.selected_nodes
                                  /\ e.to_node \notin st.selected_nodes),
          !.selected_nodes = {}])
  ELSE st

\* "c" with ctrl/meta  (1071-1084)
KeyCopy(st) ==
  IF st.selected_nodes # {}
  THEN [st EXCEPT
          !.node_clipboard =
             Some([nodes |-> SelectSeq(st.board.nodes,
                               LAMBDA n : n.id \in st.selected_nodes),
                   edges |-> SelectSeq(st.board.edges,
                               LAMBDA e : /\ e.from_node \in st.selected_nodes
                                          /\ e.to_node \in st.selected_nodes)])]
  ELSE st

RECURSIVE SumSeq(_)
SumSeq(seq) == IF seq = <<>> THEN 0 ELSE seq[1] + SumSeq(Tail(seq))

\* the index of the first copied node with this id, its key in id_map
IndexOf(nodes, id) == SetMin({i \in 1..Len(nodes) : nodes[i].id = id})

\* "v" with ctrl/meta  (1085-1134).  The mean of the copied centres is
\* rounded down to the world unit.  id_map[..] of an id that is not a copied
\* node panics before anything is changed.
KeyPaste(st) ==
  IF IsSome(st.node_clipboard) /\ Unwrap(st.node_clipboard).nodes # <<>>
  THEN LET nodes == Unwrap(st.node_clipboard).nodes
           edges == Unwrap(st.node_clipboard).edges
           k == Len(nodes)
           cx == SumSeq([i \in 1..k |-> nodes[i].x + nodes[i].width \div 2])
                 \div k
           cy == SumSeq([i \in 1..k |-> nodes[i].y + nodes[i].height \div 2])
                 \div k
           mouse == st.last_mouse_world_pos
           copied == {nodes[i].id : i \in 1..k}
           id_map == [id \in copied |-> st.next_uuid + IndexOf(nodes, id) - 1]
           new_nodes ==
             [i \in 1..k |->
                [nodes[i] EXCEPT !.id = id_map[nodes[i].id],
                                 !.x = nodes[i].x - cx + mouse[1],
                                 !.y = nodes[i].y - cy + mouse[2]]]
           new_edges ==
             [i \in 1..Len(edges) |->
                [id |-> st.next_uuid + k + i - 1,
                 from_node |-> id_map[edges[i].from_node],
                 to_node |-> id_map[edges[i].to_node]]]
           panics == \E i \in 1..Len(edges) :
                        \/ edges[i].from_node \notin copied
                        \/ edges[i].to_node \notin copied
       IN IF panics THEN st
          ELSE spawn_save(
                 [st EXCEPT
                    !.history = push(st.history, st.board),
                    !.board.nodes = st.board.nodes \o new_nodes,
                    !.board.edges = st.board.edges \o new_edges,
                    !.selected_nodes = {new_nodes[i].id : i \in 1..k},
                    !.next_uuid = st.next_uuid + k + Len(edges)])
  ELSE st

\* "t" | "T"  (1135-1152)
KeyCycleType(st) ==
  IF st.selected_nodes # {}
  THEN spawn_save(
         [st EXCEPT
            !.history = push(st.history, st.board),
            !.board.nodes =
               [i \in 1..Len(st.board.nodes) |->
                  LET n == st.board.nodes[i] IN
                  IF n.id \in st.selected_nodes
                  THEN [n EXCEPT !.node_type = cycle_node_type(n.node_type)]
                  ELSE n]])
  ELSE st

\* "Escape"  (1153-1161)
KeyEscape(st) ==
  [st EXCEPT !.selected_nodes = {}, !.selected_edge = None,
             !.editing_node = None,
             !.edge_creation = EdgeCreationState_default,
             !.selection_box = None,
             !.modal_image = None, !.modal_md = None]

\* mutant: the key commands do not look at editing_node
on_keydown_while_editing(st, key, shift, ctrl) ==
  IF key = "z" /\ ctrl
  THEN IF shift THEN KeyRedo(st) ELSE KeyUndo(st)
  ELSE IF key = "Backspace" \/ key = "Delete" THEN KeyDelete(st)
  ELSE IF key = "c" /\ ctrl THEN KeyCopy(st)
  ELSE IF key = "v" /\ ctrl THEN KeyPaste(st)
  ELSE IF key = "t" \/ key = "T" THEN KeyCycleType(st)
  ELSE IF key = "Escape" THEN KeyEscape(st)
  ELSE st

on_keydown(st, key, shift, ctrl) ==
  IF IsSome(st.editing_node) THEN st
  ELSE IF key = "z" /\ ctrl
  THEN IF shift THEN KeyRedo(st) ELSE KeyUndo(st)
  ELSE IF key = "Backspace" \/ key = "Delete" THEN KeyDelete(st)
  ELSE IF key = "c" /\ ctrl THEN KeyCopy(st)
  ELSE IF key = "v" /\ ctrl THEN KeyPaste(st)
  ELSE IF key = "t" \/ key = "T" THEN KeyCycleType(st)
  ELSE IF key = "Escape" THEN KeyEscape(st)
  ELSE st

(***************************************************************************)
(* NodeEditor  (src/src/components/node_editor.rs)                         *)
(***************************************************************************)
\* the editor exists only while the edited node is in the board  (10-14)
EditorShown(st) ==
  /\ IsSome(st.editing_node)
  /\ Unwrap(st.editing_node) \in NodeIds(st.board)

EditedNode(st) == Unwrap(FindNode(st.board, Unwrap(st.editing_node)))

\* mutant of the commit: the Board is recorded for undo before the edit
EditorCommit_pushes(st, new_text) ==
  spawn_save(
    [st EXCEPT
       !.history = push(st.history, st.board),
       !.board.nodes =
          [i \in 1..Len(st.board.nodes) |->
             LET n == st.board.nodes[i] IN
             IF n.id = Unwrap(st.editing_node)
             THEN [n EXCEPT !.text = new_text] ELSE n],
       !.editing_node = None])

\* on_blur / "Enter" of the input, on_blur / "Escape" of the textarea
EditorCommit(st, new_text) ==
  spawn_save(
    [st EXCEPT
       !.board.nodes =
          [i \in 1..Len(st.board.nodes) |->
             LET n == st.board.nodes[i] IN
             IF i = IndexOf(st.board.nodes, Unwrap(st.editing_node))
             THEN [n EXCEPT !.text = new_text] ELSE n],
       !.editing_node = None])

\* "Escape" of the input  (126-128)
EditorEscape(st) == [st EXCEPT !.editing_node = None]

(***************************************************************************)
(* The App as a state machine: one action per event handler.               *)
(***************************************************************************)
uivars ==
  <<board, camera, selected_nodes, selected_edge, drag_state, pan_state,
    editing_node, edge_creation, resize_state, cursor_style,
    last_mouse_world_pos, selection_box, modal_image, modal_md,
    node_clipboard, history, next_uuid, saves, events, last_event, gesture>>

\* The board the startup load delivers: node 1, node 2 lying over the
\* bottom-right corner of node 1, node 3 to the right and lower, and an
\* edge 1 -> 3.
LoadedBoard ==
  [nodes |->
     <<[id |-> 1, x |-> 0, y |-> 0, width |-> 60 * Scale + 20,
        height |-> 40 * Scale, text |-> "a", node_type |-> "text"],
       [id |-> 2, x |-> 40 * Scale, y |-> 20 * Scale, width |-> 60 * Scale,
        height |-> 40 * Scale, text |-> "a", node_type |-> "text"],
       [id |-> 3, x |-> 160 * Scale, y |-> 20 * Scale, width |-> 60 * Scale,
        height |-> 40 * Scale, text |-> "a", node_type |-> "text"]>>,
   edges |-> <<[id |-> 4, from_node |-> 1, to_node |-> 3]>>]

\* Pointer positions on the canvas, in pixels: inside node 1; on the
\* bottom-right handle of node 1, under node 2 (at zoom 9/10 inside the
\* handle only because its size is divided by the zoom); beside the edge
\* (at zoom 11/10 farther from it than 10/zoom, nearer than 10); on empty
\* canvas.  No test of the initial board is an equality at these points,
\* so exact and floating-point arithmetic agree on them.
Points == {<<20, 10>>, <<58, 38>>, <<130, 24>>, <<130, 100>>}

WheelPoints == {<<0, 0>>}

KeyInputs ==
  {[key |-> "z", shift |-> FALSE, ctrl |-> TRUE],
   [key |-> "z", shift |-> TRUE, ctrl |-> TRUE],
   [key |-> "z", shift |-> FALSE, ctrl |-> FALSE],
   [key |-> "Delete", shift |-> FALSE, ctrl |-> FALSE],
   [key |-> "c", shift |-> FALSE, ctrl |-> TRUE],
   [key |-> "v", shift |-> FALSE, ctrl |-> TRUE],
   [key |-> "t", shift |-> FALSE, ctrl |-> FALSE],
   [key |-> "Escape", shift |-> FALSE, ctrl |-> FALSE]}

EditTexts == {LocalMdText}

\* the part of the world the model explores
InWorld(v) == 0 - WorldMargin * Scale <= v /\ v <= WorldExtent * Scale

BoardInWorld(b) ==
  \A i \in 1..Len(b.nodes) :
    /\ InWorld(b.nodes[i].x + b.nodes[i].width \div 2)
    /\ InWorld(b.nodes[i].y + b.nodes[i].height \div 2)

PointerInWorld(p) ==
  LET w == screen_to_world(camera, p[1], p[2])
  IN InWorld(w[1]) /\ InWorld(w[2])

\* no drag or resize gesture is being followed
NoGesture ==
  [phase |-> "none", kind |-> "none", board |-> Board_default,
   history |-> History_new(0)]

Init ==
  /\ board = LoadedBoard
  /\ camera = Camera_new
  /\ selected_nodes = {}
  /\ selected_edge = None
  /\ drag_state = DragState_default
  /\ pan_state = PanState_default
  /\ editing_node = None
  /\ edge_creation = EdgeCreationState_default
  /\ resize_state = ResizeState_default
  /\ cursor_style = "crosshair"
  /\ last_mouse_world_pos = <<0, 0>>
  /\ selection_box = None
  /\ modal_image = None
  /\ modal_md = None
  /\ node_clipboard = None
  /\ history = History_new(HISTORY_MAX)
  /\ next_uuid = 5
  /\ saves = <<>>
  /\ events = 0
  /\ last_event = "none"
  /\ gesture = NoGesture
  /\ hist = History_new(0)
  /\ calls = <<>>
  /\ BackendIdle

\* the handler's result becomes the state; event names the handler and g
\* is the record of the drag or resize gesture under way
Assigned(st, event, g) ==
  /\ events' = events + 1
  /\ last_event' = event
  /\ gesture' = g
  /\ board' = st.board
  /\ camera' = st.camera
  /\ selected_nodes' = st.selected_nodes
  /\ selected_edge' = st.selected_edge
  /\ drag_state' = st.drag_state
  /\ pan_state' = st.pan_state
  /\ editing_node' = st.editing_node
  /\ edge_creation' = st.edge_creation
  /\ resize_state' = st.resize_state
  /\ cursor_style' = st.cursor_style
  /\ last_mouse_world_pos' = st.last_mouse_world_pos
  /\ selection_box' = st.selection_box
  /\ modal_image' = st.modal_image
  /\ modal_md' = st.modal_md
  /\ node_clipboard' = st.node_clipboard
  /\ history' = st.history
  /\ next_uuid' = st.next_uuid
  /\ saves' = st.saves

Effect(st, event, g) ==
  /\ Assigned(st, event, g)
  /\ UNCHANGED <<hist, calls, backend>>

\* events are handled while the run is short and the Board within the
\* part of the world the model computes exactly
Handle(st, event, g) ==
  /\ events < MaxEvents
  /\ BoardInWorld(st.board)
  /\ Effect(st, event, g)

\* a pointer-down on a resize handle begins a resize, one on a node without
\* shift begins a drag; the record keeps the Board and the history of the
\* moment before
GestureBegun(p, shift) ==
  LET t == DownTarget(State, p[1], p[2])
      kind == IF IsSome(editing_node) THEN "none"
              ELSE IF t.kind = "handle" THEN "resize"
              ELSE IF t.kind = "node" /\ ~shift THEN "drag"
              ELSE "none"
  IN IF kind = "none" THEN NoGesture
     ELSE [phase |-> "active", kind |-> kind, board |-> board,
           history |-> history]

MouseDown ==
  \E p \in Points, shift \in BOOLEAN, ctrl \in BOOLEAN :
    /\ PointerInWorld(p)
    /\ Handle(on_mouse_down(State, p[1], p[2], shift, ctrl), "mouse_down",
              GestureBegun(p, shift))

MouseMove ==
  \E p \in Points :
    /\ PointerInWorld(p)
    /\ Handle(on_mouse_move(State, p[1], p[2]), "mouse_move", gesture)

\* mouseup and mouseleave
MouseUp ==
  \E p \in Points :
    \E shift \in IF drag_state.is_box_selecting THEN BOOLEAN ELSE {FALSE} :
      /\ PointerInWorld(p)
      /\ Handle(on_mouse_up(State, p[1], p[2], shift), "mouse_up",
                IF gesture.phase = "active"
                THEN [gesture EXCEPT !.phase = "done"] ELSE NoGesture)

Wheel ==
  \E p \in WheelPoints, zoom_in \in BOOLEAN :
    /\ ExactZoom(Zoomed(camera.zoom, zoom_in))
    /\ Handle(on_wheel(State, p[1], p[2], zoom_in), "wheel", NoGesture)

\* whether the image cache holds the image matters for image nodes only
OverImage(p) ==
  LET w == screen_to_world(camera, p[1], p[2])
      hit == clicked_node(board, w[1], w[2])
  IN IsSome(hit) /\ Unwrap(hit).node_type = "image"

\* a press and release of the button at p, no modifier key held
Clicked(st, p) ==
  on_mouse_up(on_mouse_down(st, p[1], p[2], FALSE, FALSE), p[1], p[2], FALSE)

\* The browser delivers dblclick after mousedown, mouseup, mousedown and
\* mouseup at the same point, so on_double_click finds the state those
\* four handlers leave.
DoubleClick ==
  \E p \in Points :
    \E image_cached \in IF OverImage(p) THEN BOOLEAN ELSE {FALSE} :
      /\ PointerInWorld(p)
      /\ Handle(on_double_click(Clicked(Clicked(State, p), p), p[1], p[2],
                                image_cached),
                "double_click", NoGesture)

KeyDown ==
  \E k \in KeyInputs :
    /\ k.key # ""
    /\ Handle(on_keydown(State, k.key, k.shift, k.ctrl), "key_down",
              NoGesture)

EditorBlur ==
  /\ EditorShown(State)
  /\ \E new_text \in EditTexts :
       Handle(EditorCommit(State, new_text), "editor_blur", NoGesture)

EditorKeyEscape ==
  /\ EditorShown(State)
  /\ IF EditedNode(State).node_type = "md"
     THEN \E new_text \in EditTexts :
            Handle(EditorCommit(State, new_text), "editor_key", NoGesture)
     ELSE Handle(EditorEscape(State), "editor_key", NoGesture)

Next ==
  \/ MouseDown
  \/ MouseMove
  \/ MouseUp
  \/ Wheel
  \/ DoubleClick
  \/ KeyDown
  \/ EditorBlur
  \/ EditorKeyEscape

vars == <<uivars, hist, calls, backend>>

Spec == Init /\ [][Next]_vars

(***************************************************************************)
(* The App under UI events, external reloads and uploads of a board file.  *)
(***************************************************************************)
\* the Boards a changed board.json or an uploaded file delivers: an empty
\* one, and one holding node 3 only
ReplacedBoards ==
  {Board_default,
   [nodes |-> <<LoadedBoard.nodes[3]>>, edges |-> <<>>]}

\* the "board-changed" listener: set_board.set(loaded_board)
\* (src/src/app.rs 289-303)
Reloaded ==
  /\ events < MaxEvents
  /\ \E b \in ReplacedBoards :
       Handle([State EXCEPT !.board = b], "reload", gesture)

\* onload of on_file_selected: set_board.set(parsed.clone()) and a save of
\* the parsed Board  (src/src/app.rs 1246-1256)
FileSelected ==
  /\ events < MaxEvents
  /\ \E parsed \in ReplacedBoards :
       Handle([State EXCEPT !.board = parsed, !.saves = <<parsed>>],
              "upload", gesture)

RNext == Next \/ Reloaded \/ FileSelected

RSpec == Init /\ [][RNext]_vars

(***************************************************************************)
(* A History<i32> driven by arbitrary calls, as in history.rs mod tests.   *)
(* hist is the object; calls logs the most recent LogLen calls, each with  *)
(* its argument, its return value and the object as it was before it.      *)
(***************************************************************************)
hvars == <<hist, calls>>

Vals == 1..MaxVal

Logged(c) ==
  IF Len(calls) >= LogLen THEN Append(Tail(calls), c) ELSE Append(calls, c)

\* the App is not part of the harness: its state stays as constructed
AppIdle ==
  /\ board = Board_default
  /\ camera = Camera_new
  /\ selected_nodes = {}
  /\ selected_edge = None
  /\ drag_state = DragState_default
  /\ pan_state = PanState_default
  /\ editing_node = None
  /\ edge_creation = EdgeCreationState_default
  /\ resize_state = ResizeState_default
  /\ cursor_style = "crosshair"
  /\ last_mouse_world_pos = <<0, 0>>
  /\ selection_box = None
  /\ modal_image = None
  /\ modal_md = None
  /\ node_clipboard = None
  /\ history = History_new(HISTORY_MAX)
  /\ next_uuid = 1
  /\ saves = <<>>
  /\ events = 0
  /\ last_event = "none"
  /\ gesture = NoGesture

HInit ==
  /\ \E n \in 0..MaxDepth : hist = History_new(n)
  /\ calls = <<>>
  /\ AppIdle
  /\ BackendIdle

HPush ==
  \E v \in Vals :
    /\ hist' = push(hist, v)
    /\ calls' = Logged([op |-> "push", arg |-> v, ret |-> None, before |-> hist])
    /\ UNCHANGED <<uivars, backend>>

HUndo ==
  \E v \in Vals :
    LET r == undo(hist, v) IN
    /\ hist' = r.h
    /\ calls' = Logged([op |-> "undo", arg |-> v, ret |-> r.ret, before |-> hist])
    /\ UNCHANGED <<uivars, backend>>

HRedo ==
  \E v \in Vals :
    LET r == redo(hist, v) IN
    /\ hist' = r.h
    /\ calls' = Logged([op |-> "redo", arg |-> v, ret |-> r.ret, before |-> hist])
    /\ UNCHANGED <<uivars, backend>>

HNext == HPush \/ HUndo \/ HRedo

HSpec == HInit /\ [][HNext]_vars


(***************************************************************************)
(* The backend (src/src-tauri/src/lib.rs): save_board on the main thread,  *)
(* the watcher thread, and other processes writing board.json.  Events on  *)
(* other files and of other kinds are dropped by the watcher without       *)
(* effect and are left out of the channel.                                 *)
(***************************************************************************)
\* k Modify/Create events of one origin
FileEvents(origin, k) == [i \in 1..k |-> origin]

OwnPending == saving \/ \E i \in 1..Len(fs_events) : fs_events[i] = "own"

BackendStep ==
  /\ wsteps < MaxBackendSteps
  /\ wsteps' = wsteps + 1
  /\ UNCHANGED <<uivars, hist, calls, fsvars, loadvars, savevars, fetchvars>>

\* SKIP_NEXT_EMIT.store(true, SeqCst)  (save_board, 101)
SaveBoardStore ==
  /\ ~saving
  /\ BackendStep
  /\ skip_next_emit' = TRUE
  /\ saving' = TRUE
  /\ UNCHANGED <<fs_events, last_emit, emitted, handled>>

\* to_string_pretty(..)? ; fs::write(..)?  (save_board, 103-104): an error
\* returns with nothing written; a write raises one or more events
SaveBoardWrite ==
  /\ saving
  /\ BackendStep
  /\ saving' = FALSE
  /\ \E ok \in BOOLEAN : \E k \in 1..MaxFileEvents :
       fs_events' = IF ok THEN fs_events \o FileEvents("own", k)
                    ELSE fs_events
  /\ UNCHANGED <<skip_next_emit, last_emit, emitted, handled>>

\* another process writes board.json
ExternalWrite ==
  /\ BackendStep
  /\ \E k \in 1..MaxFileEvents :
       fs_events' = fs_events \o FileEvents("ext", k)
  /\ UNCHANGED <<skip_next_emit, saving, last_emit, emitted, handled>>

\* let was_skip_set = SKIP_NEXT_EMIT.swap(false, SeqCst)  (393)
WatcherSkips(flag) == [was_skip_set |-> flag, flag |-> FALSE]

\* one turn of the watcher's loop on a Modify/Create event of board.json
\* (380-410); elapsed: the debounce duration has passed since last_emit
WatcherRecv ==
  /\ fs_events # <<>>
  /\ BackendStep
  /\ fs_events' = Tail(fs_events)
  /\ skip_next_emit' = WatcherSkips(skip_next_emit).flag
  /\ handled' = [origin |-> Head(fs_events),
                 was_skip_set |-> WatcherSkips(skip_next_emit).was_skip_set,
                 pending |-> OwnPending]
  /\ \E elapsed \in IF last_emit THEN BOOLEAN ELSE {TRUE} :
       LET should_emit == ~last_emit \/ elapsed IN
       IF ~WatcherSkips(skip_next_emit).was_skip_set /\ should_emit
       THEN /\ emitted' = Append(emitted, Head(fs_events))
            /\ last_emit' = TRUE
       ELSE UNCHANGED <<emitted, last_emit>>
  /\ UNCHANGED saving

WNext == SaveBoardStore \/ SaveBoardWrite \/ ExternalWrite \/ WatcherRecv

WInit == HInit

WSpec == WInit /\ [][WNext]_vars


(***************************************************************************)
(* Asset files (src/src-tauri/src/lib.rs).  A path is the sequence of its  *)
(* components; a request is a path with the flag that it is absolute.      *)
(***************************************************************************)
Parent(path) == SubSeq(path, 1, Len(path) - 1)

\* Path::starts_with: whole components
starts_with(path, base) ==
  Len(base) <= Len(path) /\ SubSeq(path, 1, Len(base)) = base

\* Path::ends_with(child), child one component
ends_with(path, child) == Len(path) > 0 /\ path[Len(path)] = child

\* where the symlinks of the model point
LinkTarget(link) ==
  IF ends_with(link, "up") THEN ProjectDir
  ELSE ProjectDir \o <<"board.json">>

Exists(disk, path) ==
  path \in disk.dirs \/ path \in disk.files \/ path \in disk.links

\* Path::canonicalize of an absolute path: components are resolved from
\* the left, ".." and symlinks included; every prefix has to exist
RECURSIVE Resolve(_, _, _)
Resolve(disk, acc, rest) ==
  IF acc \in disk.links THEN Resolve(disk, LinkTarget(acc), rest)
  ELSE IF ~Exists(disk, acc) THEN None
  ELSE IF rest = <<>> THEN Some(acc)
  ELSE IF acc \notin disk.dirs THEN None
  ELSE IF Head(rest) = ".." THEN Resolve(disk, Parent(acc), Tail(rest))
  ELSE Resolve(disk, Append(acc, Head(rest)), Tail(rest))

\* a relative path is taken from the current directory
canonicalize(disk, dir, request) ==
  Resolve(disk, <<>>, IF request.absolute THEN request.path
                      ELSE dir \o request.path)

\* get_board_path  (63-73)
get_board_path(dir) ==
  IF ends_with(dir, "src-tauri") THEN Append(Parent(dir), "board.json")
  ELSE Append(dir, "board.json")

\* get_assets_dir  (185-189)
get_assets_dir(dir) == Append(Parent(get_board_path(dir)), "assets")

\* delete_asset  (259-281)
delete_asset(disk, dir, request) ==
  LET assets_dir == Append(dir, "assets")
      canonical_file == canonicalize(disk, dir, request)
      canonical_assets ==
        canonicalize(disk, dir, [absolute |-> TRUE, path |-> assets_dir])
  IN IF canonical_file = None
     THEN [ret |-> "File not found", disk |-> disk]
     ELSE IF canonical_assets = None
     THEN [ret |-> "Assets folder not found", disk |-> disk]
     ELSE IF ~starts_with(Unwrap(canonical_file), Unwrap(canonical_assets))
     THEN [ret |-> "Can only delete files from assets folder", disk |-> disk]
     ELSE IF Unwrap(canonical_file) \in disk.files
     THEN [ret |-> "Ok",
           disk |-> [disk EXCEPT !.files = @ \ {Unwrap(canonical_file)}]]
     ELSE [ret |-> "Failed to delete file", disk |-> disk]

\* ensure_assets_dir and the write of the pasted image  (191-197, 299-310)
paste_image(disk, dir, name) ==
  LET assets_dir == get_assets_dir(dir)
  IN [disk EXCEPT !.dirs = @ \cup {assets_dir},
                  !.files = @ \cup {Append(assets_dir, name)}]

AssetNames == {"a.png", "b.png"}

\* the paths delete_asset is called with
Requests ==
  {[absolute |-> TRUE, path |-> <<"proj", "assets", "a.png">>],
   [absolute |-> TRUE, path |-> <<"proj", "src-tauri", "assets", "a.png">>],
   [absolute |-> TRUE, path |-> <<"proj", "board.json">>],
   [absolute |-> TRUE, path |-> <<"proj", "assets", "out">>],
   [absolute |-> TRUE, path |-> <<"proj", "assets", "up", "board.json">>],
   [absolute |-> TRUE, path |-> <<"proj", "assets", "up", "assets", "b.png">>],
   [absolute |-> FALSE, path |-> <<"assets", "a.png">>],
   [absolute |-> FALSE, path |-> <<"assets", "b.png">>],
   [absolute |-> FALSE, path |-> <<"assets", "..", "board.json">>],
   [absolute |-> FALSE, path |-> <<"..", "assets", "a.png">>],
   [absolute |-> FALSE, path |-> <<"assets", "missing.png">>],
   [absolute |-> FALSE, path |-> <<"assets">>]}

\* what may lie on disk when the backend starts
StartDirs == {Append(ProjectDir, "assets"), Append(TauriDir, "assets")}

StartFiles ==
  {<<"proj", "board.json">>, <<"proj", "assets", "a.png">>,
   <<"proj", "src-tauri", "assets", "a.png">>}

StartLinks == {<<"proj", "assets", "out">>, <<"proj", "assets", "up">>}

DInit ==
  /\ AppIdle
  /\ hist = History_new(0)
  /\ calls = <<>>
  /\ WatcherIdle
  /\ LoadIdle
  /\ SaveIdle
  /\ FetchIdle
  /\ cwd \in {ProjectDir, TauriDir}
  /\ \E dirs \in SUBSET StartDirs :
     \E files \in SUBSET {f \in StartFiles :
                            Parent(f) \in BareFs.dirs \cup dirs} :
     \E links \in SUBSET {l \in StartLinks : Parent(l) \in dirs} :
       fs = [dirs |-> BareFs.dirs \cup dirs, files |-> files, links |-> links]
  /\ delete_ret = "none"
  /\ fs_steps = 0

AssetStep ==
  /\ fs_steps < MaxFsSteps
  /\ fs_steps' = fs_steps + 1
  /\ UNCHANGED <<uivars, hist, calls, wvars, cwd, loadvars, savevars,
                 fetchvars>>

DeleteAsset ==
  \E request \in Requests :
    /\ AssetStep
    /\ fs' = delete_asset(fs, cwd, request).disk
    /\ delete_ret' = delete_asset(fs, cwd, request).ret

PasteImage ==
  \E name \in AssetNames :
    /\ AssetStep
    /\ fs' = paste_image(fs, cwd, name)
    /\ UNCHANGED delete_ret

DNext == DeleteAsset \/ PasteImage

DSpec == DInit /\ [][DNext]_vars


(***************************************************************************)
(* Loading the Board: load_board (src/src-tauri/src/lib.rs 75-87),         *)
(* load_board_storage (src/src/app.rs 34-45), the startup load and the     *)
(* board-changed listener (app.rs 265-309).                                *)
(***************************************************************************)
Unparsable == [kind |-> "unparsable", board |-> Board_default]

Persisted(b) == [kind |-> "board", board |-> b]

\* a persisted Board whose node has no size yet
UnsizedBoard ==
  [nodes |-> <<[id |-> 1, x |-> 0, y |-> 0, width |-> 0, height |-> 0,
                text |-> "a", node_type |-> "text"]>>,
   edges |-> <<>>]

Documents ==
  {Missing, Unparsable, Persisted(Board_default), Persisted(LoadedBoard),
   Persisted(UnsizedBoard)}

\* Node::auto_size is not part of the sources at hand: its result is an
\* input of the load
AutoSizes == {<<60 * Scale, 40 * Scale>>, <<120 * Scale, 40 * Scale>>}

\* load_board  (lib.rs 75-87): Ok(Board) or Err(String)
load_board(doc) ==
  IF doc.kind = "missing" THEN [ok |-> TRUE, board |-> Board_default]
  ELSE IF doc.kind = "unparsable" THEN [ok |-> FALSE, board |-> Board_default]
  ELSE [ok |-> TRUE, board |-> doc.board]

\* load_board_storage  (app.rs 34-45).  invoke is bound without `catch`
\* (app.rs 18-19): when the command returns Err the promise is rejected and
\* the await ends the task, so no Board comes back (None).
load_board_storage(in_tauri, doc) ==
  IF in_tauri
  THEN IF load_board(doc).ok THEN Some(load_board(doc).board) ELSE None
  ELSE IF doc.kind = "board" THEN Some(doc.board) ELSE Some(Board_default)

\* for node in &mut loaded_board.nodes { .. }  (app.rs 271-277, 294-300)
Sized(b, size) ==
  [b EXCEPT !.nodes =
     [i \in 1..Len(b.nodes) |->
        [b.nodes[i] EXCEPT
           !.width = IF @ = 0 THEN size[1] ELSE @,
           !.height = IF @ = 0 THEN size[2] ELSE @]]]

uirest ==
  <<camera, selected_nodes, selected_edge, drag_state, pan_state,
    editing_node, edge_creation, resize_state, cursor_style,
    last_mouse_world_pos, selection_box, modal_image, modal_md,
    node_clipboard, history, next_uuid, saves, events, last_event, gesture>>

LoadStep ==
  /\ load_steps < MaxLoadSteps
  /\ load_steps' = load_steps + 1
  /\ UNCHANGED <<uirest, hist, calls, wvars, fsvars, tauri, savevars,
                 fetchvars>>

\* the body of both load tasks: load, size the unsized nodes, set the Board
LoadInto(by) ==
  LET r == load_board_storage(tauri, document)
  IN /\ loaded' = [by |-> by, found |-> document.kind, failed |-> r = None]
     /\ IF r = None THEN UNCHANGED board
        ELSE \E size \in AutoSizes : board' = Sized(Unwrap(r), size)

\* the startup load  (app.rs 265-280)
StartupLoad ==
  /\ loaded.by = "none"
  /\ LoadStep
  /\ LoadInto("startup")
  /\ UNCHANGED <<document, reload_pending>>

\* the board-changed listener, registered in Tauri only  (app.rs 284-308)
ReloadOnChange ==
  /\ tauri
  /\ loaded.by # "none"
  /\ reload_pending
  /\ LoadStep
  /\ reload_pending' = FALSE
  /\ LoadInto("reload")
  /\ UNCHANGED document

\* another process rewrites or removes the persisted document; in Tauri the
\* watcher emits board-changed for it
ExternalChange ==
  /\ LoadStep
  /\ \E doc \in Documents \ {document} : document' = doc
  /\ reload_pending' = tauri
  /\ UNCHANGED <<board, loaded>>

LInit ==
  /\ AppIdle
  /\ hist = History_new(0)
  /\ calls = <<>>
  /\ WatcherIdle
  /\ FsIdle
  /\ SaveIdle
  /\ FetchIdle
  /\ tauri \in BOOLEAN
  /\ document \in Documents
  /\ reload_pending = FALSE
  /\ loaded = NotLoaded
  /\ load_steps = 0

LNext == StartupLoad \/ ReloadOnChange \/ ExternalChange

LSpec == LInit /\ [][LNext]_vars


(***************************************************************************)
(* Persistence of edits: the save tasks the handlers spawn                 *)
(* (src/src/app.rs 47-58, 1056-1068) and the document they write.          *)
(***************************************************************************)
LocalAssetText == "/proj/assets/a.png"

\* n.text.contains("/assets/"), for the texts of the model
contains_assets(text) == text = LocalAssetText

\* image_paths_to_delete  (1040-1046)
image_paths_to_delete(st) ==
  SelectSeq(st.board.nodes,
            LAMBDA n : /\ n.id \in st.selected_nodes
                       /\ n.node_type = "image"
                       /\ contains_assets(n.text))

\* the delete_asset calls the task of the "Delete" arm awaits before it
\* saves  (1058-1066)
AwaitedDeletes(st, key) ==
  IF tauri /\ key = "Delete" /\ ~IsSome(st.editing_node)
     /\ ~IsSome(st.selected_edge)
  THEN Len(image_paths_to_delete(st)) ELSE 0

\* the board with a pasted image on it
AssetBoard ==
  [LoadedBoard EXCEPT !.nodes[1].node_type = "image",
                      !.nodes[1].text = LocalAssetText]

\* the tasks spawned for the Boards in boards; a task that awaits nothing
\* issues its save at once
Spawned(boards, deletes) ==
  /\ save_waiting' =
       IF deletes > 0
       THEN save_waiting \o [i \in 1..Len(boards) |->
                               [board |-> boards[i], deletes |-> deletes]]
       ELSE save_waiting
  /\ save_calls' = IF deletes > 0 THEN save_calls ELSE save_calls \o boards

SaveEvent(st, event, deletes) ==
  /\ events < MaxSaveEvents
  /\ Assigned(st, event, NoGesture)
  /\ Spawned(st.saves, deletes)
  /\ UNCHANGED <<hist, calls, wvars, fsvars, loadvars, save_failed,
                 fetchvars>>

\* a press and release of the button on the canvas
SClick ==
  \E p \in Points : SaveEvent(Clicked(State, p), "mouse_up", 0)

SKeyDown ==
  \E key \in {"Delete", "t"} :
    SaveEvent(on_keydown(State, key, FALSE, FALSE), "key_down",
              AwaitedDeletes(State, key))

\* one awaited delete_asset call of a waiting task returns; after the last
\* one the task calls save_board_storage
DeleteAssetReturns ==
  \E i \in 1..Len(save_waiting) :
    LET task == save_waiting[i]
        others == [j \in 1..(Len(save_waiting) - 1) |->
                     IF j < i THEN save_waiting[j] ELSE save_waiting[j + 1]]
    IN /\ IF task.deletes > 1
          THEN /\ save_waiting' =
                    [save_waiting EXCEPT ![i].deletes = task.deletes - 1]
               /\ UNCHANGED save_calls
          ELSE /\ save_waiting' = others
               /\ save_calls' = Append(save_calls, task.board)
       /\ UNCHANGED <<uivars, hist, calls, wvars, fsvars, loadvars,
                      save_failed, fetchvars>>

\* save_board_storage  (47-58): the oldest call issued is served; it writes
\* the document or fails and leaves it
SaveServed ==
  /\ save_calls # <<>>
  /\ save_calls' = Tail(save_calls)
  /\ \E ok \in BOOLEAN :
       /\ document' = IF ok THEN Persisted(Head(save_calls)) ELSE document
       /\ save_failed' = (save_failed \/ ~ok)
  /\ UNCHANGED <<uivars, hist, calls, wvars, fsvars, save_waiting,
                 tauri, reload_pending, loaded, load_steps, fetchvars>>

PInit ==
  /\ board = AssetBoard
  /\ camera = Camera_new
  /\ selected_nodes = {}
  /\ selected_edge = None
  /\ drag_state = DragState_default
  /\ pan_state = PanState_default
  /\ editing_node = None
  /\ edge_creation = EdgeCreationState_default
  /\ resize_state = ResizeState_default
  /\ cursor_style = "crosshair"
  /\ last_mouse_world_pos = <<0, 0>>
  /\ selection_box = None
  /\ modal_image = None
  /\ modal_md = None
  /\ node_clipboard = None
  /\ history = History_new(HISTORY_MAX)
  /\ next_uuid = 5
  /\ saves = <<>>
  /\ events = 0
  /\ last_event = "none"
  /\ gesture = NoGesture
  /\ hist = History_new(0)
  /\ calls = <<>>
  /\ WatcherIdle
  /\ FsIdle
  /\ SaveIdle
  /\ FetchIdle
  /\ tauri \in BOOLEAN
  /\ document = Persisted(AssetBoard)
  /\ reload_pending = FALSE
  /\ loaded = [by |-> "startup", found |-> "board", failed |-> FALSE]
  /\ load_steps = 0

PNext == SClick \/ SKeyDown \/ DeleteAssetReturns \/ SaveServed

PSpec == PInit /\ [][PNext]_vars


(***************************************************************************)
(* The three loading effects (src/src/app.rs 312-493).  Each runs when the *)
(* Board is set; the markdown effect runs again when its cache is set.     *)
(***************************************************************************)
contains_key(cache, key) == key \in cache.none \cup cache.some

\* insert(key, None)
insert_none(cache, key) ==
  [none |-> cache.none \cup {key}, some |-> cache.some \ {key}]

\* insert(key, Some(_))
insert_some(cache, key) ==
  [none |-> cache.none \ {key}, some |-> cache.some \cup {key}]

\* the nodes an effect loads for
Wanted(kind, node) ==
  CASE kind = "image" -> node.node_type = "image" /\ node.text # ""
    [] kind = "link" -> node.node_type = "link" /\ node.text # ""
    [] OTHER -> node.node_type = "link" /\ is_local_md_file(node.text)

\* the image effect (316-391) and the link effect (402-461): every node is
\* tested against the cache as it is by then
RECURSIVE CacheEffect(_, _, _, _)
CacheEffect(kind, nodes, cache, started) ==
  IF nodes = <<>> THEN [cache |-> cache, started |-> started, spawned |-> <<>>]
  ELSE LET key == Head(nodes).text
           needs == Wanted(kind, Head(nodes)) /\ ~contains_key(cache, key)
           rest == CacheEffect(kind, Tail(nodes),
                               IF needs THEN insert_none(cache, key) ELSE cache,
                               IF needs THEN [started EXCEPT ![key] = @ + 1]
                               ELSE started)
       IN [rest EXCEPT
             !.spawned = IF needs
                         THEN <<[kind |-> kind, key |-> key]>> \o @ ELSE @]

\* the markdown effect (468-492): every node is tested against
\* current_cache, the copy of the cache taken when the effect began
RECURSIVE MdEffect(_, _, _, _)
MdEffect(nodes, current_cache, cache, started) ==
  IF nodes = <<>> THEN [cache |-> cache, started |-> started, spawned |-> <<>>]
  ELSE LET key == Head(nodes).text
           needs == Wanted("md", Head(nodes))
                      /\ ~contains_key(current_cache, key)
           rest == MdEffect(Tail(nodes), current_cache,
                            IF needs THEN insert_none(cache, key) ELSE cache,
                            IF needs THEN [started EXCEPT ![key] = @ + 1]
                            ELSE started)
       IN [rest EXCEPT
             !.spawned = IF needs
                         THEN <<[kind |-> "md", key |-> key]>> \o @ ELSE @]

\* a node of the loaded Board turned into a node of the kind and text given
Fetchable(i, kind, text) ==
  [LoadedBoard.nodes[i] EXCEPT !.node_type = kind, !.text = text]

\* the Boards of the model: nothing to load; an image, a link and a
\* markdown link; the same image twice; the same markdown file twice
FetchBoards ==
  {LoadedBoard,
   [LoadedBoard EXCEPT
      !.nodes = <<Fetchable(1, "image", ImageUrl),
                  Fetchable(2, "link", LinkUrl),
                  Fetchable(3, "link", LocalMdText)>>],
   [LoadedBoard EXCEPT
      !.nodes = <<Fetchable(1, "image", ImageUrl),
                  Fetchable(2, "image", ImageUrl),
                  Fetchable(3, "link", LinkUrl)>>],
   [LoadedBoard EXCEPT
      !.nodes = <<Fetchable(1, "link", LocalMdText),
                  Fetchable(2, "link", LocalMdText),
                  Fetchable(3, "text", "a")>>]}

FetchStep ==
  /\ fetch_steps < MaxFetchSteps
  /\ fetch_steps' = fetch_steps + 1
  /\ UNCHANGED <<uirest, hist, calls, wvars, fsvars, loadvars, savevars>>

\* the Board is set; the three effects run on it
BoardSet ==
  \E b \in FetchBoards :
    LET img == CacheEffect("image", b.nodes, image_cache, fetch_started.image)
        lnk == CacheEffect("link", b.nodes, link_cache, fetch_started.link)
        md == MdEffect(b.nodes, md_file_cache, md_file_cache,
                       fetch_started.md)
    IN /\ FetchStep
       /\ board' = b
       /\ image_cache' = img.cache
       /\ link_cache' = lnk.cache
       /\ md_file_cache' = md.cache
       /\ fetch_started' =
            [image |-> img.started, link |-> lnk.started, md |-> md.started]
       /\ fetching' = fetching \o img.spawned \o lnk.spawned \o md.spawned

Remaining(i) ==
  [j \in 1..(Len(fetching) - 1) |->
     IF j < i THEN fetching[j] ELSE fetching[j + 1]]

\* an image task ends: onload stores the image, or the read or the load
\* fails and the entry stays None  (335-388)
ImageFetched ==
  \E i \in 1..Len(fetching) : \E ok \in BOOLEAN :
    /\ fetching[i].kind = "image"
    /\ FetchStep
    /\ fetching' = Remaining(i)
    /\ image_cache' = IF ok THEN insert_some(image_cache, fetching[i].key)
                      ELSE image_cache
    /\ UNCHANGED <<board, link_cache, md_file_cache, fetch_started>>

\* a link task ends (420-458): with a preview, whose image is loaded unless
\* the image cache holds its key, or without one
LinkFetched ==
  \E i \in 1..Len(fetching) : \E ok \in BOOLEAN :
    \E image \in {None, Some(ImageUrl)} :
      LET needs_img_load ==
            ok /\ IsSome(image) /\ ~contains_key(image_cache, Unwrap(image))
      IN /\ fetching[i].kind = "link"
         /\ FetchStep
         /\ link_cache' = IF ok THEN insert_some(link_cache, fetching[i].key)
                          ELSE link_cache
         /\ image_cache' = IF needs_img_load
                           THEN insert_none(image_cache, Unwrap(image))
                           ELSE image_cache
         /\ fetch_started' =
              IF needs_img_load
              THEN [fetch_started EXCEPT !.image[Unwrap(image)] = @ + 1]
              ELSE fetch_started
         /\ fetching' =
              IF needs_img_load
              THEN Append(Remaining(i),
                          [kind |-> "image", key |-> Unwrap(image)])
              ELSE Remaining(i)
         /\ UNCHANGED <<board, md_file_cache>>

\* a markdown task ends (480-488): the content, or None, is stored
MdFetched ==
  \E i \in 1..Len(fetching) : \E ok \in BOOLEAN :
    /\ fetching[i].kind = "md"
    /\ FetchStep
    /\ fetching' = Remaining(i)
    /\ md_file_cache' = IF ok THEN insert_some(md_file_cache, fetching[i].key)
                        ELSE insert_none(md_file_cache, fetching[i].key)
    /\ UNCHANGED <<board, image_cache, link_cache, fetch_started>>

FNext == BoardSet \/ ImageFetched \/ LinkFetched \/ MdFetched

FSpec == Init /\ [][FNext]_vars

(***************************************************************************)
(* The camera under long runs of wheel events.  The zoom reaches 5.0 after *)
(* 17 wheel-ups and 0.1 after 22 wheel-downs from the initial camera and   *)
(* is then exactly the clamp bound, so runs start at 1, 5 or 1/10.         *)
(***************************************************************************)
ClampedZooms ==
  {Camera_new.zoom, [n |-> 5, d |-> 1], [n |-> 1, d |-> 10]}

ZInit ==
  /\ \E z \in ClampedZooms : camera = [Camera_new EXCEPT !.zoom = z]
  /\ board = LoadedBoard
  /\ selected_nodes = {}
  /\ selected_edge = None
  /\ drag_state = DragState_default
  /\ pan_state = PanState_default
  /\ editing_node = None
  /\ edge_creation = EdgeCreationState_default
  /\ resize_state = ResizeState_default
  /\ cursor_style = "crosshair"
  /\ last_mouse_world_pos = <<0, 0>>
  /\ selection_box = None
  /\ modal_image = None
  /\ modal_md = None
  /\ node_clipboard = None
  /\ history = History_new(HISTORY_MAX)
  /\ next_uuid = 5
  /\ saves = <<>>
  /\ events = 0
  /\ last_event = "none"
  /\ gesture = NoGesture
  /\ hist = History_new(0)
  /\ calls = <<>>
  /\ BackendIdle

\* wheel events are anchored at the pointer positions while the zoom is a
\* fraction of at most MaxAnchorDenom in the denominator, and at the
\* canvas origin after that
ZWheelPoints ==
  IF camera.zoom.d <= MaxAnchorDenom THEN Points ELSE WheelPoints

ZWheel ==
  \E p \in ZWheelPoints, zoom_in \in BOOLEAN :
    /\ events < MaxWheels
    /\ Effect(on_wheel(State, p[1], p[2], zoom_in), "wheel", NoGesture)

ZNext == ZWheel

ZSpec == ZInit /\ [][ZNext]_vars

(***************************************************************************)
(* The scenario of the unit tests of history.rs: a fresh History receives  *)
(* pushes, then undos, then redos.  Here calls is the complete log.        *)
(***************************************************************************)
CountOp(op) == Cardinality({i \in 1..Len(calls) : calls[i].op = op})

TPush ==
  \E v \in Vals :
    /\ CountOp("push") = Len(calls)
    /\ Len(calls) < MaxPushes
    /\ hist' = push(hist, v)
    /\ calls' = Append(calls, [op |-> "push", arg |-> v, ret |-> None,
                               before |-> hist])
    /\ UNCHANGED <<uivars, backend>>

TUndo ==
  \E v \in Vals :
    LET r == undo(hist, v) IN
    /\ CountOp("redo") = 0
    /\ CountOp("undo") <= hist.max_size
    /\ hist' = r.h
    /\ calls' = Append(calls, [op |-> "undo", arg |-> v, ret |-> r.ret,
                               before |-> hist])
    /\ UNCHANGED <<uivars, backend>>

TRedo ==
  \E v \in Vals :
    LET r == redo(hist, v) IN
    /\ CountOp("redo") < CountOp("undo")
    /\ hist' = r.h
    /\ calls' = Append(calls, [op |-> "redo", arg |-> v, ret |-> r.ret,
                               before |-> hist])
    /\ UNCHANGED <<uivars, backend>>

TNext == TPush \/ TUndo \/ TRedo

TSpec == HInit /\ [][TNext]_vars

(***************************************************************************)
(* Properties of the App.                                                  *)
(***************************************************************************)
Flag(b) == IF b THEN 1 ELSE 0

\* how many of the five gestures are active
ActiveCount ==
  Flag(resize_state.is_resizing) + Flag(drag_state.is_dragging)
  + Flag(drag_state.is_box_selecting) + Flag(pan_state.is_panning)
  + Flag(edge_creation.is_creating)

Idle == ActiveCount = 0 /\ selection_box = None

\* the pointer-up has ended the gesture that the pointer-down began
GestureOver ==
  /\ gesture.kind = "resize" => ~resize_state.is_resizing
  /\ gesture.kind = "drag" => ~drag_state.is_dragging

C2_OneGestureAtATime == ActiveCount <= 1

\* C3: after every pointer-up or mouse-leave no gesture is active and the
\* selection box is cleared.
C3_IdleAfterPointerUp == last_event = "mouse_up" => Idle

\* C4, the claim's target of a pointer-down at a world point: the handles of
\* selected nodes there, the nodes containing it, the edges near it.
C4_HandleSize == (RESIZE_HANDLE_SIZE * camera.zoom.d) \div camera.zoom.n

C4_Handles(wx, wy) ==
  {i \in 1..Len(board.nodes) :
     /\ board.nodes[i].id \in selected_nodes
     /\ resize_handle_at(board.nodes[i], wx, wy, C4_HandleSize) # None}

C4_Nodes(wx, wy) ==
  {i \in 1..Len(board.nodes) : contains_point(board.nodes[i], wx, wy)}

C4_Edges(wx, wy) ==
  {i \in 1..Len(board.edges) :
     \E f \in 1..Len(board.nodes), t \in 1..Len(board.nodes) :
       /\ board.nodes[f].id = board.edges[i].from_node
       /\ board.nodes[t].id = board.edges[i].to_node
       /\ point_near_line(
            wx, wy,
            board.nodes[f].x + board.nodes[f].width \div 2,
            board.nodes[f].y + board.nodes[f].height \div 2,
            board.nodes[t].x + board.nodes[t].width \div 2,
            board.nodes[t].y + board.nodes[t].height \div 2,
            (10 * Scale * camera.zoom.d) \div camera.zoom.n)}

\* the outcomes the claim allows for a pointer-down at p
C4_Allowed(p, shift, ctrl) ==
  LET w == screen_to_world(camera, p[1], p[2])
      handles == C4_Handles(w[1], w[2])
      nodes == C4_Nodes(w[1], w[2])
      edges == C4_Edges(w[1], w[2])
  IN IF handles # {}
     THEN {MouseDownHandle(
             State, board.nodes[i],
             Unwrap(resize_handle_at(board.nodes[i], w[1], w[2],
                                     C4_HandleSize)),
             w[1], w[2]) : i \in handles}
     ELSE IF nodes # {}
     THEN {MouseDownNode(State, board.nodes[SetMax(nodes)], p[1], p[2],
                         shift, ctrl)}
     ELSE IF edges # {}
     THEN {MouseDownEdge(State, board.edges[SetMin(edges)])}
     ELSE {MouseDownEmpty(State, p[1], p[2], shift, ctrl)}

\* C4: when no node is being edited, a pointer-down runs the branch of
\* exactly one target: a resize handle (of size RESIZE_HANDLE_SIZE/zoom) of
\* a selected node if the point is on one, whatever covers it; else the
\* last node in Board order containing the point; else the first edge whose
\* centre-to-centre segment is nearer than 10/zoom; else the empty canvas.
C4_TargetPriority ==
  \A p \in Points, shift \in BOOLEAN, ctrl \in BOOLEAN :
    (editing_node = None /\ PointerInWorld(p)) =>
      on_mouse_down(State, p[1], p[2], shift, ctrl)
        \in C4_Allowed(p, shift, ctrl)

\* zoomed out to 9/10, a pointer-down has taken the bottom-right handle of
\* the selected node 1 at a point that another node covers
C4_Witness ==
  /\ last_event = "mouse_down"
  /\ camera.zoom = [n |-> 9, d |-> 10]
  /\ resize_state.is_resizing
  /\ resize_state.node_id = Some(1)
  /\ resize_state.handle = Some("BottomRight")
  /\ \E i \in 1..Len(board.nodes) :
       /\ board.nodes[i].id # 1
       /\ contains_point(board.nodes[i], resize_state.start_mouse_x,
                         resize_state.start_mouse_y)

\* C5: selected_nodes non-empty and selected_edge = Some never hold
\* together.
C5_SelectionExclusive == ~(selected_nodes # {} /\ IsSome(selected_edge))

\* C6: both endpoints of every edge of the Board are nodes of the Board.
C6_NoDanglingEdges ==
  \A i \in 1..Len(board.edges) :
    /\ board.edges[i].from_node \in NodeIds(board)
    /\ board.edges[i].to_node \in NodeIds(board)

(***************************************************************************)
(* Properties of History, stated over the call log.                        *)
(***************************************************************************)

\* the entries of seq at the indices in keep, in the order of seq
C13_Remaining(seq, keep) ==
  [i \in 1..Cardinality(keep) |->
     seq[CHOOSE k \in keep : Cardinality({m \in keep : m < k}) = i - 1]]

\* C13: in every reachable state where no node is being edited, Delete or
\* Backspace (a) with no edge selected and a non-empty node selection S
\* pushes one snapshot, the Board before the key, removes the nodes in S and
\* the edges with an endpoint in S, keeps every other node and edge, in
\* order, and empties the node selection; (b) with an edge selected pushes
\* one snapshot, removes that edge only, keeps the nodes and the node
\* selection and clears the edge selection.
C13_DeleteSelection ==
  \A key \in {"Delete", "Backspace"} :
    LET a == on_keydown(State, key, FALSE, FALSE)
        S == selected_nodes
        nodes == board.nodes
        edges == board.edges
        pushed == /\ a.history.past = Append(history.past, board)
                  /\ a.history.future = <<>> IN
    /\ (editing_node = None /\ selected_edge = None /\ S # {}) =>
         /\ pushed
         /\ a.board.nodes =
              C13_Remaining(nodes, {k \in 1..Len(nodes) : nodes[k].id \notin S})
         /\ a.board.edges =
              C13_Remaining(edges,
                {k \in 1..Len(edges) : /\ edges[k].from_node \notin S
                                       /\ edges[k].to_node \notin S})
         /\ a.selected_nodes = {}
    /\ (editing_node = None /\ IsSome(selected_edge)) =>
         /\ pushed
         /\ a.board.nodes = nodes
         /\ a.board.edges =
              C13_Remaining(edges,
                {k \in 1..Len(edges) : edges[k].id # Unwrap(selected_edge)})
         /\ a.selected_edge = None
         /\ a.selected_nodes = S

\* Delete was pressed with node 1 selected: nodes 2 and 3 remain, in order,
\* the edge from node 1 is gone and the snapshot on top is the Board before
C13_Witness ==
  /\ last_event = "key_down"
  /\ history.past # <<>>
  /\ Last(history.past) = LoadedBoard
  /\ board.nodes = SubSeq(LoadedBoard.nodes, 2, 3)
  /\ board.edges = <<>>
  /\ selected_nodes = {}


\* two nodes of the Board are selected, no edge is, and no node is edited
C14_TwoSelected ==
  /\ editing_node = None
  /\ selected_edge = None
  /\ Cardinality(selected_nodes) = 2
  /\ selected_nodes \subseteq NodeIds(board)

\* the state after Delete is pressed in the current state
C14_Deleted == on_keydown(State, "Delete", FALSE, FALSE)

\* C14 as stated: with two nodes A and B selected, Delete followed by redo
\* (Ctrl+Shift+Z) gives back the Board as it was before the delete.
C14_RedoRestoresDeleted ==
  C14_TwoSelected =>
    on_keydown(C14_Deleted, "z", TRUE, TRUE).board = board

\* C14 amended: with two nodes A and B selected, Delete followed by undo
\* (Ctrl+Z) gives back the Board as it was before the delete, A, B and
\* their edges included; redo straight after the delete changes nothing,
\* and redo after that undo gives the Board without A and B again.
C14_UndoRestoresDeleted ==
  C14_TwoSelected =>
    LET u == on_keydown(C14_Deleted, "z", FALSE, TRUE) IN
    /\ C14_Deleted.board # board
    /\ u.board = board
    /\ on_keydown(C14_Deleted, "z", TRUE, TRUE) = C14_Deleted
    /\ on_keydown(u, "z", TRUE, TRUE).board = C14_Deleted.board

\* nodes 1 and another node were deleted together, with the edge of node 1,
\* and undo has brought the Board back; the redo stack holds the Board
\* without them
C14_Witness ==
  /\ last_event = "key_down"
  /\ board = LoadedBoard
  /\ history.future # <<>>
  /\ Len(Last(history.future).nodes) = 1
  /\ Last(history.future).edges = <<>>


\* no node of the Board contains the world point under canvas point p
C15_EmptyAt(p) ==
  LET w == screen_to_world(camera, p[1], p[2]) IN
  \A k \in 1..Len(board.nodes) : ~contains_point(board.nodes[k], w[1], w[2])

\* C15: in every reachable state, a double-click at a canvas point whose
\* world point (wx, wy) lies in no node appends one node of 200 x 100 at
\* (wx - 100, wy - 50) after all existing nodes, with a fresh id, selects
\* exactly that node, starts editing it, pushes one snapshot, the Board
\* before the insertion, and leaves the existing nodes and the edges as
\* they were.
C15_DoubleClickCreates ==
  \A p \in Points : \A image_cached \in BOOLEAN :
    C15_EmptyAt(p) =>
      LET a == on_double_click(State, p[1], p[2], image_cached)
          w == screen_to_world(camera, p[1], p[2])
          n == Len(board.nodes)
          new == a.board.nodes[n + 1] IN
      /\ Len(a.board.nodes) = n + 1
      /\ SubSeq(a.board.nodes, 1, n) = board.nodes
      /\ a.board.edges = board.edges
      /\ new.width = 200 * Scale
      /\ new.height = 100 * Scale
      /\ new.x = w[1] - 100 * Scale
      /\ new.y = w[2] - 50 * Scale
      /\ new.id \notin NodeIds(board) \cup EdgeIds(board)
      /\ a.selected_nodes = {new.id}
      /\ a.editing_node = Some(new.id)
      /\ a.history.past = Append(history.past, board)
      /\ a.history.future = <<>>

\* a double-click has added a fourth node to the loaded Board while the
\* camera was zoomed; the node is selected and being edited
C15_Witness ==
  /\ last_event = "double_click"
  /\ camera.zoom # Camera_new.zoom
  /\ Len(board.nodes) = 4
  /\ SubSeq(board.nodes, 1, 3) = LoadedBoard.nodes
  /\ selected_nodes = {board.nodes[4].id}
  /\ editing_node = Some(board.nodes[4].id)
  /\ Last(history.past) = LoadedBoard


\* the Board after a pointer-move to canvas point p has every node that was
\* recorded at pointer-down at its recorded start position plus the screen
\* delta divided by the zoom, and everything else as it was
C16_Follows(p) ==
  LET a == on_mouse_move(State, p[1], p[2])
      ds == drag_state
      dx == ((p[1] - ds.start_x) * Scale * camera.zoom.d) \div camera.zoom.n
      dy == ((p[2] - ds.start_y) * Scale * camera.zoom.d) \div camera.zoom.n IN
  /\ Len(a.board.nodes) = Len(board.nodes)
  /\ a.board.edges = board.edges
  /\ \A k \in 1..Len(board.nodes) :
       LET old == board.nodes[k]
           new == a.board.nodes[k] IN
       IF old.id \in DOMAIN ds.node_start_positions
       THEN new = [old EXCEPT !.x = ds.node_start_positions[old.id][1] + dx,
                              !.y = ds.node_start_positions[old.id][2] + dy]
       ELSE new = old

\* C16: in every reachable state in which nodes are being dragged, a
\* pointer-move to any point puts every recorded node at its start position
\* plus (current screen point - start screen point) / zoom and changes no
\* other node, no size and no edge.
C16_DragFollowsPointer ==
  drag_state.is_dragging => \A p \in Points : C16_Follows(p)


\* C17: in every reachable state with a drag or a resize in progress, no
\* pointer-move dispatches a save, the pointer-up dispatches exactly one,
\* and a mouse-leave following that pointer-up (the same handler run again)
\* dispatches no further one; with only a pan or a box-select in progress
\* neither a pointer-move nor the pointer-up dispatches a save.
C17_OneSavePerGesture ==
  /\ (drag_state.is_dragging \/ resize_state.is_resizing) =>
       \A p \in Points :
         LET up == on_mouse_up(State, p[1], p[2], FALSE) IN
         /\ on_mouse_move(State, p[1], p[2]).saves = <<>>
         /\ Len(up.saves) = 1
         /\ \A q \in Points :
              on_mouse_up(up, q[1], q[2], FALSE).saves = up.saves
  /\ ((pan_state.is_panning \/ drag_state.is_box_selecting)
        /\ ~drag_state.is_dragging /\ ~resize_state.is_resizing) =>
       \A p \in Points : \A shift \in BOOLEAN :
         /\ on_mouse_move(State, p[1], p[2]).saves = <<>>
         /\ on_mouse_up(State, p[1], p[2], shift).saves = <<>>


ResizeHandles == {"TopLeft", "TopRight", "BottomLeft", "BottomRight"}

\* the world position of the corner of node n that carries handle h
HandleCorner(n, h) ==
  <<IF h \in {"TopLeft", "BottomLeft"} THEN n.x ELSE n.x + n.width,
    IF h \in {"TopLeft", "TopRight"} THEN n.y ELSE n.y + n.height>>

\* original sizes a grabbed node is given: its own, and one below both
\* minimums, as a document loaded from disk may hold
GrabSizes(n) == {<<n.width, n.height>>, <<10 * Scale, 10 * Scale>>}

\* the state after the k-th node of the Board, of the given size and
\* selected, has been grabbed by a pointer-down on the corner of handle h
Grabbed(k, h, size) ==
  LET n == [board.nodes[k] EXCEPT !.width = size[1], !.height = size[2]]
      st == [State EXCEPT !.board.nodes[k] = n, !.selected_nodes = {n.id}]
      c == HandleCorner(n, h)
  IN MouseDownHandle(st, n, h, c[1], c[2])

\* C18: after a pointer-move of a resize, the resized node is at least 50
\* wide and 30 high: in every reachable state with a resize in progress,
\* for every pointer position, and for every node of the Board grabbed at
\* any of its four handles, with its own size or a size below the
\* minimums.
C18_ResizeKeepsMinimumSize ==
  /\ resize_state.is_resizing =>
       \A p \in Points :
         LET a == on_mouse_move(State, p[1], p[2]) IN
         \A k \in 1..Len(a.board.nodes) :
           Some(a.board.nodes[k].id) = resize_state.node_id =>
             /\ a.board.nodes[k].width >= 50 * Scale
             /\ a.board.nodes[k].height >= 30 * Scale
  /\ \A k \in 1..Len(board.nodes) : \A h \in ResizeHandles :
       \A size \in GrabSizes(board.nodes[k]) : \A p \in Points :
         LET a == on_mouse_move(Grabbed(k, h, size), p[1], p[2]) IN
         /\ a.board.nodes[k].width >= 50 * Scale
         /\ a.board.nodes[k].height >= 30 * Scale

\* a pointer-move of a resize has brought the resized node down to both
\* minimums at once
C18_Witness ==
  /\ last_event = "mouse_move"
  /\ resize_state.is_resizing
  /\ \E k \in 1..Len(board.nodes) :
       /\ Some(board.nodes[k].id) = resize_state.node_id
       /\ board.nodes[k].width = 50 * Scale
       /\ board.nodes[k].height = 30 * Scale
       /\ resize_state.original_width > 50 * Scale
       /\ resize_state.original_height > 30 * Scale


\* node new has the corner opposite handle h where the rectangle of origin
\* (ox, oy) and size ow x oh has it
C19_OppositeKept(new, h, ox, oy, ow, oh) ==
  /\ h \in {"TopLeft", "BottomLeft"} => new.x + new.width = ox + ow
  /\ h \in {"TopRight", "BottomRight"} => new.x = ox
  /\ h \in {"TopLeft", "TopRight"} => new.y + new.height = oy + oh
  /\ h \in {"BottomLeft", "BottomRight"} => new.y = oy

\* C19: after a pointer-move of a resize, the corner of the resized node
\* opposite the grabbed handle is where it was when the handle was grabbed,
\* also when width and height are both clamped: in every reachable state
\* with a resize in progress, for every pointer position, and for every
\* node of the Board grabbed at any of its four handles.
C19_OppositeCornerFixed ==
  /\ resize_state.is_resizing =>
       \A p \in Points :
         LET a == on_mouse_move(State, p[1], p[2])
             rs == resize_state IN
         \A k \in 1..Len(a.board.nodes) :
           Some(a.board.nodes[k].id) = rs.node_id =>
             C19_OppositeKept(a.board.nodes[k], Unwrap(rs.handle),
                              rs.original_x, rs.original_y,
                              rs.original_width, rs.original_height)
  /\ \A k \in 1..Len(board.nodes) : \A h \in ResizeHandles :
       \A size \in GrabSizes(board.nodes[k]) : \A p \in Points :
         LET n == board.nodes[k]
             a == on_mouse_move(Grabbed(k, h, size), p[1], p[2]) IN
         C19_OppositeKept(a.board.nodes[k], h, n.x, n.y, size[1], size[2])

\* a pointer-move of a resize by the bottom-right handle has clamped width
\* and height together and the node has its top-left corner where it was
C19_Witness ==
  /\ last_event = "mouse_move"
  /\ resize_state.is_resizing
  /\ resize_state.handle = Some("BottomRight")
  /\ \E k \in 1..Len(board.nodes) :
       LET n == board.nodes[k] IN
       /\ Some(n.id) = resize_state.node_id
       /\ n.width = 50 * Scale /\ n.width # resize_state.original_width
       /\ n.height = 30 * Scale /\ n.height # resize_state.original_height
       /\ n.x = resize_state.original_x
       /\ n.y = resize_state.original_y


\* C20: after any run of wheel events the camera zoom is at least 1/10 and
\* at most 5, and so greater than 0.
C20_ZoomWithinBounds ==
  /\ camera.zoom.d > 0
  /\ camera.zoom.n > 0
  /\ camera.zoom.d <= 10 * camera.zoom.n
  /\ camera.zoom.n <= 5 * camera.zoom.d

\* a third wheel event has taken the zoom from 4.95 to the upper bound
C20_Witness ==
  /\ last_event = "wheel"
  /\ events = 3
  /\ camera.zoom = [n |-> 5, d |-> 1]


\* C21: a wheel event at a screen anchor leaves the world point under the
\* anchor where it was: screen_to_world of the anchor is the same with the
\* camera after the event as with the camera before it, zooming in and
\* zooming out, also when the new zoom is clamped.
C21_ZoomAtPoint ==
  camera.zoom.d <= MaxAnchorDenom =>
    \A p \in Points : \A zoom_in \in BOOLEAN :
      LET a == on_wheel(State, p[1], p[2], zoom_in) IN
      screen_to_world(a.camera, p[1], p[2]) =
        screen_to_world(camera, p[1], p[2])

\* a wheel event anchored away from the canvas origin has been clamped at
\* the upper bound after the zoom had left it, and has moved the camera
C21_Witness ==
  /\ last_event = "wheel"
  /\ events >= 3
  /\ camera.zoom = [n |-> 5, d |-> 1]
  /\ camera.x # 0
  /\ camera.y # 0


\* the distance, in units of 1/Scale px, within which a round trip through
\* a division and a multiplication by the zoom counts as equal
RoundTripTolerance == 2

C22_Close(a, b) ==
  /\ Abs(a[1] - b[1]) <= RoundTripTolerance
  /\ Abs(a[2] - b[2]) <= RoundTripTolerance

\* world points: the corners of the nodes, the last pointer position and a
\* point off every grid
C22_WorldPoints ==
  {<<board.nodes[k].x, board.nodes[k].y>> : k \in 1..Len(board.nodes)}
  \cup {<<board.nodes[k].x + board.nodes[k].width,
          board.nodes[k].y + board.nodes[k].height>> :
          k \in 1..Len(board.nodes)}
  \cup {last_mouse_world_pos, <<7, -13>>}

C22_ThereAndBack(w) ==
  LET s == world_to_screen(camera, w[1], w[2])
  IN screen_to_world_units(camera, s[1], s[2])

\* C22: with the camera of any reachable state, world_to_screen of
\* screen_to_world of a screen point is that point, and screen_to_world of
\* world_to_screen of a world point is that point, within the tolerance.
C22_RoundTrip ==
  /\ \A p \in Points :
       LET w == screen_to_world(camera, p[1], p[2])
       IN C22_Close(world_to_screen(camera, w[1], w[2]),
                    <<p[1] * Scale, p[2] * Scale>>)
  /\ \A w \in C22_WorldPoints : C22_Close(C22_ThereAndBack(w), w)

\* the camera is panned and zoomed and a round trip of a world point comes
\* back rounded, not exact
C22_Witness ==
  /\ camera.zoom # Camera_new.zoom
  /\ camera.x # 0
  /\ camera.y # 0
  /\ \E w \in C22_WorldPoints : C22_ThereAndBack(w) # w


\* C23: board-changed is never emitted for a file event that an own
\* save_board raised.
C23_NoSelfTriggeredReload ==
  \A i \in 1..Len(emitted) : emitted[i] # "own"

\* C24: when the watcher handles an event of an external change while no
\* own save is under way and no event of an own save is in the channel, it
\* finds SKIP_NEXT_EMIT false; and SKIP_NEXT_EMIT is true only while an own
\* save is under way or an event of one is in the channel.
C24_ExternalChangeNotSwallowed ==
  /\ (handled.origin = "ext" /\ ~handled.pending) => ~handled.was_skip_set
  /\ skip_next_emit => OwnPending


\* what a shift+pointer-down at p does when it lands on a node: edge
\* creation from that node starts; Board and history stay, nothing is saved
C25_DownStarts(p, ctrl) ==
  LET t == DownTarget(State, p[1], p[2])
      s == on_mouse_down(State, p[1], p[2], TRUE, ctrl)
  IN (State.editing_node = None /\ t.kind = "node") =>
       /\ s.edge_creation.is_creating
       /\ s.edge_creation.from_node_id = Some(t.hit.id)
       /\ s.board = State.board
       /\ s.history = State.history
       /\ s.saves = <<>>

\* what a pointer-up at p does while an edge is being created
C25_UpEnds(p, shift) ==
  LET w == screen_to_world(State.camera, p[1], p[2])
      target == clicked_node(State.board, w[1], w[2])
      source == Unwrap(State.edge_creation.from_node_id)
      s == on_mouse_up(State, p[1], p[2], shift)
  IN /\ ~s.edge_creation.is_creating
     /\ IF IsSome(target) /\ Unwrap(target).id # source
        THEN /\ s.history = push(State.history, State.board)
             /\ s.board.nodes = State.board.nodes
             /\ Len(s.board.edges) = Len(State.board.edges) + 1
             /\ SubSeq(s.board.edges, 1, Len(State.board.edges))
                  = State.board.edges
             /\ s.board.edges[Len(s.board.edges)].from_node = source
             /\ s.board.edges[Len(s.board.edges)].to_node = Unwrap(target).id
             /\ s.saves = <<s.board>>
        ELSE /\ s.board = State.board
             /\ s.history = State.history
             /\ s.saves = <<>>

\* C25: a shift+pointer-down on a node starts edge creation and pushes no
\* snapshot; the pointer-up over another node pushes one snapshot, appends
\* one Edge from the source to that node and dispatches one save; over the
\* source or over empty canvas it changes neither Board nor history and
\* saves nothing; in every case edge creation is over after the pointer-up.
C25_EdgeCreation ==
  /\ \A p \in Points : \A ctrl \in BOOLEAN : C25_DownStarts(p, ctrl)
  /\ State.edge_creation.is_creating =>
       \A p \in Points : \A shift \in BOOLEAN : C25_UpEnds(p, shift)


\* C26: Escape on the canvas leaves no node and no edge selected, no
\* gesture (drag, box-select, pan, resize, edge creation) active, the
\* selection box and both modals closed, and Board and history as they were.
C26_EscapeClearsAll ==
  State.editing_node = None =>
    \A shift \in BOOLEAN : \A ctrl \in BOOLEAN :
      LET s == on_keydown(State, "Escape", shift, ctrl)
      IN /\ s.selected_nodes = {}
         /\ s.selected_edge = None
         /\ ~s.drag_state.is_dragging
         /\ ~s.drag_state.is_box_selecting
         /\ ~s.pan_state.is_panning
         /\ ~s.resize_state.is_resizing
         /\ ~s.edge_creation.is_creating
         /\ s.selection_box = None
         /\ s.modal_image = None
         /\ s.modal_md = None
         /\ s.board = State.board
         /\ s.history = State.history


\* a handler's result s leaves Board, selections, history and gestures as
\* they are and dispatches no save
C27_NoOp(s) ==
  /\ s.board = State.board
  /\ s.selected_nodes = State.selected_nodes
  /\ s.selected_edge = State.selected_edge
  /\ s.history = State.history
  /\ s.drag_state = State.drag_state
  /\ s.pan_state = State.pan_state
  /\ s.resize_state = State.resize_state
  /\ s.edge_creation = State.edge_creation
  /\ s.selection_box = State.selection_box
  /\ s.editing_node = State.editing_node
  /\ s.saves = <<>>

\* C27: while a node is edited in place, the canvas key commands (delete,
\* type cycle, undo, redo, copy, paste, Escape) and pointer-down change
\* neither Board, selection, history nor gesture state.
C27_EditingBlocksCanvas ==
  IsSome(State.editing_node) =>
    /\ \A k \in KeyInputs : C27_NoOp(on_keydown(State, k.key, k.shift, k.ctrl))
    /\ \A p \in Points : \A shift \in BOOLEAN : \A ctrl \in BOOLEAN :
         C27_NoOp(on_mouse_down(State, p[1], p[2], shift, ctrl))

C27_Witness ==
  /\ IsSome(editing_node)
  /\ last_event \in {"key_down", "mouse_down"}
  /\ selected_nodes # {}
  /\ Len(history.past) > 0


\* what the key command with result s did, r being what History returned
C28_Applied(r, s) ==
  IF IsSome(r.ret)
  THEN /\ s.board = Unwrap(r.ret)
       /\ s.history = r.h
       /\ s.selected_nodes = {}
       /\ s.selected_edge = None
       /\ s.saves = <<Unwrap(r.ret)>>
  ELSE /\ s.board = State.board
       /\ s.history = State.history
       /\ s.selected_nodes = State.selected_nodes
       /\ s.selected_edge = State.selected_edge
       /\ s.saves = <<>>

\* C28: Ctrl+Z and Ctrl+Shift+Z make the snapshot History returns the live
\* Board, clear node and edge selection and dispatch one save of that
\* Board; when History returns nothing, Board, selection and history stay
\* and nothing is saved.
C28_UndoRedoApplied ==
  State.editing_node = None =>
    /\ C28_Applied(undo(State.history, State.board),
                   on_keydown(State, "z", FALSE, TRUE))
    /\ C28_Applied(redo(State.history, State.board),
                   on_keydown(State, "z", TRUE, TRUE))

C28_Witness ==
  /\ last_event = "key_down"
  /\ Len(history.future) > 0
  /\ saves = <<board>>
  /\ board # LoadedBoard
  /\ selected_nodes = {}


\* the request resolves to something inside the managed assets directory
C29_Inside(request) ==
  LET file == canonicalize(fs, cwd, request)
      managed == canonicalize(fs, cwd, [absolute |-> TRUE,
                                        path |-> get_assets_dir(cwd)])
  IN /\ IsSome(file)
     /\ IsSome(managed)
     /\ starts_with(Unwrap(file), Unwrap(managed))

\* C29: delete_asset removes a file only when its canonical path lies in
\* the canonical managed assets directory; for every other path, also one
\* that leaves the directory through ".." or a symlink and one that does
\* not exist, it returns an error and the disk stays as it is.
C29_DeleteOnlyInsideAssets ==
  \A request \in Requests :
    LET r == delete_asset(fs, cwd, request)
    IN /\ r.disk # fs => C29_Inside(request)
       /\ ~C29_Inside(request) => (r.ret # "Ok" /\ r.disk = fs)


\* C30: a load that finds the persisted document missing or unparsable
\* ends without failure and leaves the empty Board in the frontend, at
\* startup and on a reload, in Tauri and in the browser.
C30_BrokenDocumentLoadsEmpty ==
  (loaded.by # "none" /\ loaded.found \in {"missing", "unparsable"}) =>
    (~loaded.failed /\ board = Board_default)


\* C31: once no save task is in flight and none has failed, the persisted
\* document is the live Board (an older dispatched Board never ends up as
\* the persisted content).
C31_PersistedIsLive ==
  (/\ save_waiting = <<>>
   /\ save_calls = <<>>
   /\ ~save_failed) =>
    document = Persisted(board)


\* the kinds in their cyclic order, and one that is not a kind
C32_Order == <<"text", "idea", "note", "image", "md", "link">>

C32_Kinds == {C32_Order[i] : i \in 1..6} \cup {"sticker"}

C32_After(kind) ==
  IF \E i \in 1..6 : C32_Order[i] = kind
  THEN C32_Order[((CHOOSE i \in 1..6 : C32_Order[i] = kind) % 6) + 1]
  ELSE "text"

\* the state with every node of the kind given
C32_OfKind(kind) ==
  [State EXCEPT !.board.nodes =
     [i \in 1..Len(State.board.nodes) |->
        [State.board.nodes[i] EXCEPT !.node_type = kind]]]

C32_Cycled(st, key) ==
  LET s == on_keydown(st, key, FALSE, FALSE)
  IN IF st.selected_nodes = {}
     THEN s.board = st.board /\ s.history = st.history
     ELSE /\ s.history = push(st.history, st.board)
          /\ s.board.edges = st.board.edges
          /\ Len(s.board.nodes) = Len(st.board.nodes)
          /\ \A i \in 1..Len(st.board.nodes) :
               LET n == st.board.nodes[i] IN
               s.board.nodes[i] =
                 IF n.id \in st.selected_nodes
                 THEN [n EXCEPT !.node_type = C32_After(n.node_type)]
                 ELSE n

\* C32: T with a non-empty node selection moves every selected node's kind
\* one step along text, idea, note, image, md, link, text, an unrecognized
\* kind to text, changes nothing else in the Board and pushes one snapshot;
\* six steps bring a recognized kind back; with nothing selected Board and
\* history stay.
C32_CycleType ==
  /\ \A kind \in C32_Kinds :
       /\ cycle_node_type(kind) = C32_After(kind)
       /\ kind # "sticker" =>
            cycle_node_type(cycle_node_type(cycle_node_type(cycle_node_type(
              cycle_node_type(cycle_node_type(kind)))))) = kind
  /\ State.editing_node = None =>
       \A kind \in C32_Kinds : \A key \in {"t", "T"} :
         C32_Cycled(C32_OfKind(kind), key)

C32_Witness ==
  /\ last_event = "key_down"
  /\ saves = <<board>>
  /\ \E i \in 1..Len(board.nodes) :
       /\ board.nodes[i].id \in selected_nodes
       /\ board.nodes[i].node_type = "note"
  /\ \E i \in 1..Len(board.nodes) : board.nodes[i].node_type = "text"


\* the node selection the claim expects after a pointer-down on node id
C33_Expected(id, ctrl) ==
  IF ctrl
  THEN IF id \in State.selected_nodes THEN State.selected_nodes \ {id}
       ELSE State.selected_nodes \cup {id}
  ELSE IF id \in State.selected_nodes THEN State.selected_nodes ELSE {id}

C33_Down(p, ctrl) ==
  LET t == DownTarget(State, p[1], p[2])
      s == on_mouse_down(State, p[1], p[2], FALSE, ctrl)
      expected == C33_Expected(t.hit.id, ctrl)
  IN (State.editing_node = None /\ t.kind = "node") =>
       /\ s.selected_nodes = expected
       /\ s.history = push(State.history, State.board)
       /\ s.drag_state.is_dragging
       /\ DOMAIN s.drag_state.node_start_positions
            = expected \cap NodeIds(State.board)
       /\ \A i \in 1..Len(State.board.nodes) :
            LET n == State.board.nodes[i] IN
            n.id \in expected =>
              s.drag_state.node_start_positions[n.id] = <<n.x, n.y>>

\* C33: a pointer-down on a node without shift toggles the node in the
\* selection when ctrl/cmd is held, replaces the selection by an unselected
\* node and keeps the selection of a selected one otherwise; it pushes one
\* snapshot and starts a drag with the start positions of exactly the
\* selected nodes.
C33_SelectOnDown ==
  \A p \in Points : \A ctrl \in BOOLEAN : C33_Down(p, ctrl)


\* boxes at the bottom-right corner of node n: touching it in the corner
\* point, along its right edge, and one unit away from it
C34_CornerBoxes(n) ==
  LET r == n.x + n.width
      b == n.y + n.height
  IN {<<r, b, r + 10 * Scale, b + 10 * Scale>>,
      <<r, n.y, r + 10 * Scale, b>>,
      <<r + 1, n.y, r + 10 * Scale, b>>}

\* the box of the state, if any, and the corner boxes of every node
C34_Boxes ==
  {State.selection_box[i] : i \in 1..Len(State.selection_box)}
    \cup UNION {C34_CornerBoxes(State.board.nodes[i]) :
                  i \in 1..Len(State.board.nodes)}

\* the state during a box selection with the box given
C34_Selecting(box) ==
  [State EXCEPT !.selection_box = Some(box),
                !.drag_state.is_box_selecting = TRUE,
                !.drag_state.is_dragging = FALSE]

\* ids of the nodes whose rectangle and the box have a point in common
C34_Overlapping(b, box) ==
  {b.nodes[i].id : i \in
     {j \in 1..Len(b.nodes) :
        /\ b.nodes[j].x <= box[3]
        /\ b.nodes[j].x + b.nodes[j].width >= box[1]
        /\ b.nodes[j].y <= box[4]
        /\ b.nodes[j].y + b.nodes[j].height >= box[2]}}

C34_Up(st, p, shift) ==
  LET s == on_mouse_up(st, p[1], p[2], shift)
      box == Unwrap(st.selection_box)
      inside == C34_Overlapping(st.board, box)
  IN ~s.drag_state.is_box_selecting =>
       /\ box[1] <= box[3] /\ box[2] <= box[4]
       /\ s.selected_nodes =
            IF shift THEN st.selected_nodes \cup inside ELSE inside
       /\ s.selection_box = None
       /\ s.board = st.board
       /\ s.history = st.history
       /\ s.saves = <<>>

\* C34: the pointer-up that ends a box selection with a box present makes
\* the node selection the set of nodes overlapping the box, edges touching
\* included, or its union with the previous selection under shift; Board
\* and history stay and nothing is saved.
C34_BoxSelects ==
  \A box \in C34_Boxes : \A p \in Points : \A shift \in BOOLEAN :
    (box \in C34_Boxes \ {State.selection_box[i] :
                            i \in 1..Len(State.selection_box)}
       \/ State.drag_state.is_box_selecting) =>
      C34_Up(C34_Selecting(box), p, shift)

C34_Witness ==
  /\ last_event = "mouse_up"
  /\ gesture = NoGesture
  /\ ActiveCount = 0
  /\ Cardinality(selected_nodes) = 2
  /\ selection_box = None
  /\ saves = <<>>
  /\ Len(history.past) = 0


\* the state with node id taken out of the Board, as a delete, an undo or
\* a reload during the gesture leaves it
C35_Without(ids) ==
  [State EXCEPT
     !.board.nodes = SelectSeq(State.board.nodes, LAMBDA n : n.id \notin ids),
     !.board.edges =
        SelectSeq(State.board.edges,
                  LAMBDA e : e.from_node \notin ids /\ e.to_node \notin ids)]

\* a pointer-move to p and the pointer-up after it, in a drag of st with a
\* recorded node missing
C35_DragMove(st, p) ==
  LET ds == st.drag_state
      recorded == DOMAIN ds.node_start_positions
      s == on_mouse_move(st, p[1], p[2])
      u == on_mouse_up(s, p[1], p[2], FALSE)
      dx == ((p[1] - ds.start_x) * Scale * st.camera.zoom.d)
              \div st.camera.zoom.n
      dy == ((p[2] - ds.start_y) * Scale * st.camera.zoom.d)
              \div st.camera.zoom.n
  IN (/\ ds.is_dragging
      /\ ~st.resize_state.is_resizing
      /\ ~st.edge_creation.is_creating
      /\ recorded \ NodeIds(st.board) # {}) =>
       /\ Len(s.board.nodes) = Len(st.board.nodes)
       /\ s.board.edges = st.board.edges
       /\ \A k \in 1..Len(st.board.nodes) :
            LET old == st.board.nodes[k] IN
            s.board.nodes[k] =
              IF old.id \in recorded
              THEN [old EXCEPT !.x = ds.node_start_positions[old.id][1] + dx,
                               !.y = ds.node_start_positions[old.id][2] + dy]
              ELSE old
       /\ s.drag_state = ds
       /\ s.history = st.history
       /\ ~u.drag_state.is_dragging
       /\ u.board = s.board
       /\ u.saves = <<s.board>>

\* the same for a resize of st whose node is missing
C35_ResizeMove(st, p) ==
  LET rs == st.resize_state
      s == on_mouse_move(st, p[1], p[2])
      u == on_mouse_up(s, p[1], p[2], FALSE)
  IN (/\ rs.is_resizing
      /\ IsSome(rs.node_id)
      /\ Unwrap(rs.node_id) \notin NodeIds(st.board)) =>
       /\ s.board = st.board
       /\ s.resize_state = rs
       /\ s.history = st.history
       /\ ~u.resize_state.is_resizing
       /\ u.board = st.board
       /\ u.saves = <<st.board>>

\* the sets of nodes that may have gone: none, or some of the recorded ones
C35_Gone ==
  SUBSET (DOMAIN State.drag_state.node_start_positions
            \cup {State.resize_state.node_id[i] :
                    i \in 1..Len(State.resize_state.node_id)})

C36_AtMostOneFetch ==
  \A key \in FetchKeys :
    /\ fetch_started.image[key] <= 1
    /\ fetch_started.link[key] <= 1
    /\ fetch_started.md[key] <= 1


\* C38: whenever editing_node is Some(id), a node with that id is in the
\* Board, so the inline editor is rendered.
C38_EditedNodeExists == IsSome(editing_node) => EditorShown(State)

\* C39: every id of the node selection is the id of a node of the Board,
\* and a selected edge id is the id of an edge of the Board.
C39_SelectionInBoard ==
  /\ selected_nodes \subseteq NodeIds(board)
  /\ IsSome(selected_edge) =>
       \E i \in 1..Len(board.edges) : board.edges[i].id = Unwrap(selected_edge)


\* the texts an editor may hold when it commits: unchanged, emptied, new
C40_Texts == EditTexts \cup {"", EditedNode(State).text}

\* the Board with the text of the edited node replaced, nothing else
C40_Retexted(new_text) ==
  [board EXCEPT
     !.nodes = [i \in 1..Len(board.nodes) |->
                  IF board.nodes[i].id = Unwrap(editing_node)
                  THEN [board.nodes[i] EXCEPT !.text = new_text]
                  ELSE board.nodes[i]]]

\* C40: committing an inline edit changes only the text of the edited
\* node, dispatches one save of the resulting Board and leaves the undo and
\* redo stacks as they were; Escape in the plain text input leaves the
\* Board unchanged.
C40_CommitTextOnly ==
  EditorShown(State) =>
    /\ \A new_text \in C40_Texts :
         LET after == EditorCommit(State, new_text)
         IN /\ after.board = C40_Retexted(new_text)
            /\ after.saves = <<after.board>>
            /\ after.history = history
            /\ after.editing_node = None
    /\ EditedNode(State).node_type # "md" =>
         /\ EditorEscape(State).board = board
         /\ EditorEscape(State).saves = <<>>
         /\ EditorEscape(State).history = history

\* an edit has been committed by a blur, with undo entries on the stack,
\* and the edited node carries the committed text
C40_Witness ==
  /\ last_event = "editor_blur"
  /\ editing_node = None
  /\ saves = <<board>>
  /\ history.past # <<>>
  /\ \E i \in 1..Len(board.nodes) : board.nodes[i].text \in EditTexts

LastCall == calls[Len(calls)]

C37_Sum(h) == Len(h.past) + Len(h.future)

\* C37: in every reachable History state the undo entries and the redo
\* entries together number at most max_size; undo and redo keep that number
\* and push leaves no redo entry and at most max_size undo entries.
C37_SumBounded ==
  /\ C37_Sum(hist) <= hist.max_size
  /\ Len(hist.future) <= hist.max_size
  /\ calls # <<>> =>
       /\ LastCall.op \in {"undo", "redo"} =>
            C37_Sum(hist) = C37_Sum(LastCall.before)
       /\ LastCall.op = "push" =>
            /\ hist.future = <<>>
            /\ C37_Sum(hist) <= hist.max_size

\* a redo on a History whose entries number max_size, redo entries left
C37_Witness ==
  /\ calls # <<>>
  /\ LastCall.op = "redo"
  /\ IsSome(LastCall.ret)
  /\ hist.max_size >= 2
  /\ C37_Sum(hist) = hist.max_size
  /\ hist.future # <<>>
  /\ hist.past # <<>>

Called(op) == calls # <<>> /\ LastCall.op = op

\* s is the tail end of t, in the same order
IsSuffix(s, t) ==
  /\ Len(s) <= Len(t)
  /\ s = SubSeq(t, Len(t) - Len(s) + 1, Len(t))

\* the history as it was after the i-th logged call
After(i) == IF i = Len(calls) THEN hist ELSE calls[i + 1].before

\* C7 as stated: after push(s) the redo stack is empty, the undo stack is
\* what survives of the previous one, in order, and s is on top of it.
C7_PushClearsRedoKeepsOrder ==
  Called("push") =>
    /\ hist.future = <<>>
    /\ hist.past # <<>>
    /\ Last(hist.past) = LastCall.arg
    /\ IsSuffix(Front(hist.past), LastCall.before.past)

\* C7 amended: as above, with s on top only when max_size >= 1; with
\* max_size = 0 the pushed snapshot itself is evicted and the undo stack is
\* empty. Entries are dropped only from the old end and only down to
\* max_size.
C7_PushClearsRedoKeepsOrderAmended ==
  Called("push") =>
    /\ hist.future = <<>>
    /\ IsSuffix(hist.past, Append(LastCall.before.past, LastCall.arg))
    /\ Len(hist.past) = Min(Len(LastCall.before.past) + 1, hist.max_size)
    /\ hist.max_size >= 1 => Last(hist.past) = LastCall.arg
    /\ hist.max_size = 0 => hist.past = <<>>

\* a push onto a history whose redo and undo stacks both held entries
C7_Witness ==
  /\ Called("push")
  /\ LastCall.before.future # <<>>
  /\ LastCall.before.past # <<>>
  /\ Len(hist.past) >= 2

\* C8: the undo stack never holds more than max_size entries; a push that
\* would exceed it drops from the old end, and after max_size + 1 pushes in
\* a row the undo stack is exactly the last max_size pushed values, in push
\* order.
C8_UndoStackBounded ==
  /\ Len(hist.past) <= hist.max_size
  /\ Called("push") =>
       /\ IsSuffix(hist.past, Append(LastCall.before.past, LastCall.arg))
       /\ Len(hist.past) = Min(Len(LastCall.before.past) + 1, hist.max_size)
  /\ LET n == hist.max_size
         k == Len(calls) IN
     (k >= n + 1 /\ \A i \in (k - n)..k : calls[i].op = "push") =>
        hist.past = [j \in 1..n |-> calls[k - n + j].arg]

\* a push that evicted the oldest entry of a full, non-trivial undo stack
C8_Witness ==
  /\ Called("push")
  /\ hist.max_size >= 2
  /\ Len(LastCall.before.past) = hist.max_size
  /\ LastCall.before.past[1] # LastCall.before.past[2]

\* C9: undo(current) pops and returns the newest undo entry and stores
\* current on the redo stack, or returns None and changes nothing when the
\* undo stack is empty; redo(current) is the mirror image.
C9_UndoRedoContract ==
  \A i \in 1..Len(calls) :
    LET c == calls[i]
        b == c.before
        a == After(i) IN
    /\ c.op = "undo" =>
         IF b.past # <<>>
         THEN /\ c.ret = Some(Last(b.past))
              /\ a.past = Front(b.past)
              /\ a.future = Append(b.future, c.arg)
              /\ a.max_size = b.max_size
         ELSE c.ret = None /\ a = b
    /\ c.op = "redo" =>
         IF b.future # <<>>
         THEN /\ c.ret = Some(Last(b.future))
              /\ a.future = Front(b.future)
              /\ a.past = Append(b.past, c.arg)
              /\ a.max_size = b.max_size
         ELSE c.ret = None /\ a = b

\* the log shows a successful undo, an undo on an empty undo stack, a
\* successful redo and a redo on an empty redo stack
C9_Witness ==
  /\ \E i \in 1..Len(calls) :
       calls[i].op = "undo" /\ IsSome(calls[i].ret)
  /\ \E i \in 1..Len(calls) :
       calls[i].op = "undo" /\ calls[i].ret = None /\ calls[i].before.future # <<>>
  /\ \E i \in 1..Len(calls) :
       calls[i].op = "redo" /\ IsSome(calls[i].ret)
  /\ \E i \in 1..Len(calls) :
       calls[i].op = "redo" /\ calls[i].ret = None /\ calls[i].before.past # <<>>

\* the i-th and (i+1)-th logged calls are undo(c) returning p, then redo(p)
UndoThenRedo(i) ==
  /\ calls[i].op = "undo"
  /\ IsSome(calls[i].ret)
  /\ calls[i + 1].op = "redo"
  /\ calls[i + 1].arg = Unwrap(calls[i].ret)

\* C10: if undo(c) returns p, an immediately following redo(p) returns c
\* and leaves both stacks exactly as they were before the undo.
C10_UndoRedoRoundTrip ==
  \A i \in 1..(Len(calls) - 1) :
    UndoThenRedo(i) =>
      /\ calls[i + 1].ret = Some(calls[i].arg)
      /\ After(i + 1) = calls[i].before

\* two undo/redo cycles in a row, on a history with two undo entries and a
\* current value different from the undone one
C10_Witness ==
  /\ Len(calls) = 4
  /\ UndoThenRedo(1)
  /\ UndoThenRedo(3)
  /\ calls[3].arg = Unwrap(calls[2].ret)
  /\ calls[1].arg # Unwrap(calls[1].ret)
  /\ Len(calls[1].before.past) >= 2

\* the logged calls are k pushes, then m undos, then r redos
Pushes == CountOp("push")
Undos == CountOp("undo")
Redos == CountOp("redo")

\* C11: on a fresh History of max depth N that received k > N pushes, the
\* i-th undo (i <= N) returns the i-th most recently pushed value and the
\* (N+1)-th undo returns None; with N = 0 every undo returns None and the
\* undo stack is empty after every push.
C11_DepthLimitedUndo ==
  LET n == hist.max_size IN
  /\ Pushes > n =>
       \A i \in 1..Undos :
         calls[Pushes + i].ret =
           IF i <= n THEN Some(calls[Pushes - i + 1].arg) ELSE None
  /\ n = 0 =>
       /\ \A i \in 1..Len(calls) :
            calls[i].op = "undo" => calls[i].ret = None
       /\ hist.past = <<>>

\* depth 2, three pushes of which the last two differ, then three undos:
\* two succeed and the third returns None
C11_Witness ==
  /\ hist.max_size = 2
  /\ Pushes = 3
  /\ Undos = 3
  /\ Redos = 0
  /\ calls[2].arg # calls[3].arg
  /\ IsSome(calls[5].ret)
  /\ calls[6].ret = None

\* C12: after N pushes into a fresh History of max depth N and N undos, the
\* j-th redo (j <= N) succeeds and returns the current value that was passed
\* to the (N-j+1)-th undo, so the N-th redo returns the value passed to the
\* first undo; the redo stack then held N entries, and no undo removes or
\* changes an entry of the redo stack.
C12_RedoStackNotTrimmed ==
  LET n == hist.max_size IN
  /\ (Pushes = n /\ Undos >= n) =>
       /\ \A j \in 1..Redos :
            j <= n => calls[Pushes + Undos + j].ret =
                        Some(calls[Pushes + n - j + 1].arg)
       /\ Len(After(Pushes + n).future) = n
  /\ \A i \in 1..Len(calls) :
       calls[i].op = "undo" =>
         /\ Len(After(i).future) >= Len(calls[i].before.future)
         /\ SubSeq(After(i).future, 1, Len(calls[i].before.future)) =
              calls[i].before.future

\* depth 2: two pushes, two undos with different current values, two redos
C12_Witness ==
  /\ hist.max_size = 2
  /\ Pushes = 2
  /\ Undos = 2
  /\ Redos = 2
  /\ calls[3].arg # calls[4].arg
  /\ IsSome(calls[5].ret)
  /\ IsSome(calls[6].ret)

====
